---- MODULE Spec2Model ----
(***************************************************************************)
(* Herbario-AI: the App component (src/App.tsx, the current variant at     *)
(* lines 1-1348), its local storage, and the Gemini service layer          *)
(* (src/services/geminiService.ts).                                        *)
(*                                                                         *)
(* An async handler is modelled by the step that runs up to its first      *)
(* await on the network or the device (its Start action, which also        *)
(* freezes the values its closure captured at render time) and the step    *)
(* that runs from the last await to the end (its Complete action).         *)
(* Between the two the user and other completions may act.                 *)
(***************************************************************************)
EXTENDS Integers, Sequences, FiniteSets, TLC

VARIABLES
    app,            \* the useState cells of App (src/App.tsx:924-942)
    language,       \* LanguageContext: 'es' | 'en'
    userApiKey,     \* ApiKeyContext: the key typed by the user, "" when none
    envApiKey,      \* ApiKeyContext: the key of the build environment
    localStorage,   \* the browser storage: plantHistory, plantHerbarium, userApiKey
    inflight,       \* the async handlers that started and have not finished yet
    now,            \* Date.now(): the clock ticks with every event
    chosenMode,     \* ghost: the mode tab that was active when the file was picked
    last,           \* ghost: what the handler that finished last did
    fx              \* the state of the service-layer and pure-function checks

vars == <<app, language, userApiKey, envApiKey, localStorage, inflight, now,
          chosenMode, last, fx>>

appVars == <<app, language, userApiKey, envApiKey, localStorage, inflight, now,
             chosenMode, last>>

----------------------------------------------------------------------------
(* Bounds of the model. *)

MaxClock == 7        \* the events (presses, completions) of one run
MaxInflight == 2      \* async handlers in flight at once

----------------------------------------------------------------------------
(* JavaScript values. *)

Null == [isNull |-> TRUE]           \* null for object-valued cells
NoText == "null"                    \* null for string-valued cells
Undefined == [isUndefined |-> TRUE] \* undefined for the optional keys of an entry
NoString == "undefined"             \* undefined where a string is expected

Languages == {"es", "en"}
MainModes == {"identify", "diagnose", "remedy", "discover"}

\* The keys of a HistoryEntry that may hold undefined.
OptionalKeys == {"mapaDistribucionSrc", "careGuide", "imageGenerationFailed"}

\* entry.key as JavaScript reads it: undefined when the key is absent.
Get(e, k) == IF k \in DOMAIN e THEN e[k] ELSE Undefined

\* { ...e, k: v }
With(e, k, v) == [x \in DOMAIN e \cup {k} |-> IF x = k THEN v ELSE e[x]]

\* Two entries that every property read tells apart in no way.
SameEntry(a, b) ==
    /\ (DOMAIN a) \ OptionalKeys = (DOMAIN b) \ OptionalKeys
    /\ \A k \in (DOMAIN a \cup DOMAIN b) : Get(a, k) = Get(b, k)

SameList(s, t) ==
    /\ Len(s) = Len(t)
    /\ \A i \in 1..Len(s) : SameEntry(s[i], t[i])

Ids(list) == {list[i].id : i \in 1..Len(list)}

RECURSIVE FilterOutId(_, _)
\* list.filter(entry => entry.id !== id)
FilterOutId(list, id) ==
    IF list = <<>> THEN <<>>
    ELSE IF Head(list).id = id THEN FilterOutId(Tail(list), id)
         ELSE <<Head(list)>> \o FilterOutId(Tail(list), id)

\* list.map(h => h.id === updated.id ? updated : h)
ReplaceById(list, updated) ==
    [i \in 1..Len(list) |-> IF list[i].id = updated.id THEN updated ELSE list[i]]

\* list.slice(0, n)
\* A slice that keeps everything
SliceAll(list, n) == list

\* list.slice(0, n)
Slice(list, n) == SubSeq(list, 1, IF Len(list) < n THEN Len(list) ELSE n)

RECURSIVE InsertDesc(_, _)
InsertDesc(e, sorted) ==
    IF sorted = <<>> THEN <<e>>
    ELSE IF Head(sorted).timestamp >= e.timestamp
         THEN <<Head(sorted)>> \o InsertDesc(e, Tail(sorted))
         ELSE <<e>> \o sorted

RECURSIVE SortDesc(_)
\* list.sort((a, b) => b.timestamp - a.timestamp): stable, newest first
SortDesc(list) ==
    IF list = <<>> THEN <<>>
    ELSE InsertDesc(list[Len(list)], SortDesc(SubSeq(list, 1, Len(list) - 1)))

----------------------------------------------------------------------------
(* JSON and the browser storage. *)

\* JSON.stringify of one entry: a key whose value is undefined is left out.
StringifyEntry(e) ==
    [k \in {x \in DOMAIN e : ~(x \in OptionalKeys /\ e[x] = Undefined)} |-> e[k]]

\* JSON.stringify(list): the text, held as the list of the objects it spells.
JSONstringify(list) == [json |-> [i \in 1..Len(list) |-> StringifyEntry(list[i])]]

\* JSON.parse(text)
JSONparse(text) == text.json

\* localStorage.getItem of a key that was never set
NoItem == [absent |-> TRUE]

\* if (storedValue): a stored text is never the empty string
HasItem(item) == "json" \in DOMAIN item

----------------------------------------------------------------------------
(* Strings, where the code looks into them: a text is the list of its      *)
(* characters.                                                             *)

UpperCase == <<"A", "B", "C", "D", "E", "F", "G", "H", "I", "J", "K", "L", "M",
               "N", "O", "P", "Q", "R", "S", "T", "U", "V", "W", "X", "Y", "Z">>
LowerCaseLetters ==
    <<"a", "b", "c", "d", "e", "f", "g", "h", "i", "j", "k", "l", "m",
      "n", "o", "p", "q", "r", "s", "t", "u", "v", "w", "x", "y", "z">>

\* The characters of the names, the uses and the filters of the model
Spell(s) ==
    CASE s = "" -> <<>>
      [] s = "Dog rose" -> <<"D", "o", "g", " ", "r", "o", "s", "e">>
      [] s = "Sage" -> <<"S", "a", "g", "e">>
      [] s = "Powdery mildew" ->
             <<"P", "o", "w", "d", "e", "r", "y", " ", "m", "i", "l", "d", "e", "w">>
      [] s = "Colds" -> <<"C", "o", "l", "d", "s">>
      [] s = "Sore throat" -> <<"S", "o", "r", "e", " ", "t", "h", "r", "o", "a", "t">>
      [] s = "ROSE" -> <<"R", "O", "S", "E">>
      [] s = "cold" -> <<"c", "o", "l", "d">>
      [] s = "Name not available" ->
             <<"N", "a", "m", "e", " ", "n", "o", "t", " ", "a", "v", "a", "i", "l",
               "a", "b", "l", "e">>

\* The small letter of every capital
LowerTable ==
    [c \in {UpperCase[i] : i \in 1..26} |->
        LowerCaseLetters[CHOOSE i \in 1..26 : UpperCase[i] = c]]

\* c.toLowerCase()
LowerChar(c) == IF c \in DOMAIN LowerTable THEN LowerTable[c] ELSE c

\* text.toLowerCase()
toLowerCase(text) == [i \in 1..Len(text) |-> LowerChar(text[i])]

\* text.includes(part)
includes(text, part) ==
    \E i \in 0..(Len(text) - Len(part)) : SubSeq(text, i + 1, i + Len(part)) = part

\* The place of a character in the alphabet, letters of both cases together,
\* everything else before the letters
RankTable ==
    [c \in {LowerCaseLetters[i] : i \in 1..26} |->
        CHOOSE i \in 1..26 : LowerCaseLetters[i] = c]
Rank(c) == IF LowerChar(c) \in DOMAIN RankTable THEN RankTable[LowerChar(c)] ELSE 0

RECURSIVE Compare(_, _)
\* The sign of the first difference of two lists of numbers
Compare(a, b) ==
    IF a = <<>> THEN (IF b = <<>> THEN 0 ELSE -1)
    ELSE IF b = <<>> THEN 1
    ELSE IF Head(a) < Head(b) THEN -1
    ELSE IF Head(a) > Head(b) THEN 1
    ELSE Compare(Tail(a), Tail(b))

Ranks(text) == [i \in 1..Len(text) |-> Rank(text[i])]

\* A lower-case letter comes before its capital
CaseRanks(text) == [i \in 1..Len(text) |-> IF LowerChar(text[i]) = text[i] THEN 0 ELSE 1]

\* a.localeCompare(b): alphabetical, the case of the letters telling apart
\* only texts that are otherwise the same
localeCompare(a, b) ==
    IF Compare(Ranks(a), Ranks(b)) # 0 THEN Compare(Ranks(a), Ranks(b))
    ELSE Compare(CaseRanks(a), CaseRanks(b))

----------------------------------------------------------------------------
(* The values JSON.parse can return, and the JavaScript operators the      *)
(* sanitizers apply to them.                                               *)

JNull == [t |-> "null"]
JUndef == [t |-> "undefined"]
JStr(s) == [t |-> "string", s |-> s]
JNum(n) == [t |-> "number", n |-> n]
JArr(items) == [t |-> "array", items |-> items]
JObj(f) == [t |-> "object", f |-> f]
EmptyObject == JObj([k \in {} |-> JUndef])

\* typeof v
TypeOf(v) ==
    CASE v.t \in {"null", "array", "object"} -> "object"
      [] OTHER -> v.t

\* Array.isArray(v)
IsArray(v) == v.t = "array"

\* !!v
Truthy(v) ==
    CASE v.t = "string" -> v.s # ""
      [] v.t = "number" -> v.n # 0
      [] v.t \in {"array", "object"} -> TRUE
      [] OTHER -> FALSE

\* data.key: undefined when data has no such key
Field(data, k) ==
    IF data.t = "object" /\ k \in DOMAIN data.f THEN data.f[k] ELSE JUndef

NumeralOf(n) == CASE n = 0 -> "0" [] n = 1 -> "1" [] OTHER -> "7"

\* String(v), for the values of the model: an array of at most one string
\* joins to that string or to the empty string.
StringOf(v) ==
    CASE v.t = "string" -> v.s
      [] v.t = "number" -> NumeralOf(v.n)
      [] v.t = "array" ->
            IF v.items # <<>> /\ v.items[1].t = "string" THEN v.items[1].s ELSE ""
      [] v.t = "object" -> "[object Object]"
      [] OTHER -> v.t

\* String(v || fallback)
StringOr(v, fallback) == IF Truthy(v) THEN StringOf(v) ELSE fallback

RECURSIVE OnlyStrings(_)
\* items.filter(s => typeof s === 'string'), as a list of strings
OnlyStrings(items) ==
    IF items = <<>> THEN <<>>
    ELSE IF Head(items).t = "string"
         THEN <<Head(items).s>> \o OnlyStrings(Tail(items))
         ELSE OnlyStrings(Tail(items))

\* Array.isArray(v) ? v.filter(s => typeof s === 'string') : []
StringList(v) == IF IsArray(v) THEN OnlyStrings(v.items) ELSE <<>>

----------------------------------------------------------------------------
(* sanitizePlantInfo *)

\* The string fields of PlantInfo and the text that stands in for a missing one.
StringDefault ==
    [nombreComun |-> "Name not available",
     nombreCientifico |-> "Scientific name not available",
     descripcionGeneral |-> "No description available.",
     habitat |-> "Habitat not available.",
     distribucionGeografica |-> "Geographic distribution not available.",
     floweringSeason |-> "Flowering season not available.",
     conservationStatus |-> "Not assessed.",
     toxicidad |-> "Toxicity information not available."]

StringKeys == DOMAIN StringDefault
StringListKeys == {"sinonimos", "usosMedicinales", "usosCulinarios", "principiosActivos"}
RecordListKeys == {"preparaciones", "plantasSimilares",
                   "plantasConPrincipiosActivosSimilares"}
PlantInfoKeys == StringKeys \cup StringListKeys \cup RecordListKeys

\* The callback of data.preparaciones.map: Null for an item that is dropped.
SanitizePreparation(p) ==
    IF ~Truthy(p) \/ TypeOf(p) # "object" THEN Null
    ELSE [nombre |-> StringOr(Field(p, "nombre"), "Unnamed Preparation"),
          ingredientes |-> StringList(Field(p, "ingredientes")),
          instrucciones |-> StringOr(Field(p, "instrucciones"), "No instructions."),
          dosis |-> StringOr(Field(p, "dosis"), "Dosage not specified."),
          efectosSecundarios |->
              StringOr(Field(p, "efectosSecundarios"), "No known side effects reported."),
          contextoHistorico |->
              StringOr(Field(p, "contextoHistorico"), "No historical context.")]

\* The callback of data.plantasSimilares.map
SanitizeSimilarPlant(p) ==
    IF \/ ~Truthy(p)
       \/ TypeOf(p) # "object"
       \/ ~Truthy(Field(p, "nombreComun"))
       \/ ~Truthy(Field(p, "diferenciaClave"))
    THEN Null
    ELSE [nombreComun |-> StringOf(Field(p, "nombreComun")),
          nombreCientifico |-> StringOr(Field(p, "nombreCientifico"), "N/A"),
          diferenciaClave |-> StringOf(Field(p, "diferenciaClave"))]

\* The callback of data.plantasConPrincipiosActivosSimilares.map
SanitizeSimilarActivePlant(p) ==
    IF \/ ~Truthy(p)
       \/ TypeOf(p) # "object"
       \/ ~Truthy(Field(p, "nombreComun"))
       \/ ~Truthy(Field(p, "principioActivoCompartido"))
    THEN Null
    ELSE [nombreComun |-> StringOf(Field(p, "nombreComun")),
          nombreCientifico |-> StringOr(Field(p, "nombreCientifico"), "N/A"),
          principioActivoCompartido |-> StringOf(Field(p, "principioActivoCompartido"))]

RECURSIVE DropNull(_)
\* list.filter(p => p !== null)
DropNull(list) ==
    IF list = <<>> THEN <<>>
    ELSE IF Head(list) = Null THEN DropNull(Tail(list))
         ELSE <<Head(list)>> \o DropNull(Tail(list))

\* Array.isArray(v) ? v.map(callback).filter(p => p !== null) : []
RecordList(v, k) ==
    IF ~IsArray(v) THEN <<>>
    ELSE DropNull([i \in 1..Len(v.items) |->
            CASE k = "preparaciones" -> SanitizePreparation(v.items[i])
              [] k = "plantasSimilares" -> SanitizeSimilarPlant(v.items[i])
              [] OTHER -> SanitizeSimilarActivePlant(v.items[i])])

\* The object built at geminiService.ts:154-203.
SanitizedFields(data) ==
    [k \in PlantInfoKeys |->
        CASE k \in StringKeys -> StringOr(Field(data, k), StringDefault[k])
          [] k \in StringListKeys -> StringList(Field(data, k))
          [] OTHER -> RecordList(Field(data, k), k)]

\* sanitizePlantInfo(data): Null, or a PlantInfo
sanitizePlantInfo(data) ==
    IF ~Truthy(data) \/ TypeOf(data) # "object" THEN Null
    ELSE IF Truthy(Field(data, "error")) THEN Null
    ELSE LET sanitized == SanitizedFields(data) IN
         IF /\ sanitized.nombreComun = StringDefault.nombreComun
            /\ sanitized.nombreCientifico = StringDefault.nombreCientifico
         THEN Null
         ELSE sanitized

----------------------------------------------------------------------------
(* getJsonFromResponse.  A response text is a sequence of tokens:          *)
(*   "{" "}" "[" "]"  the brackets          "0"  a JSON literal            *)
(*   "x"  a character of prose              " "  white space               *)
(*   "J"  the opening fence ```json         "E"  the bare fence ```        *)
(* The opening fence begins with the three backquotes of a bare fence, so  *)
(* it also ends a block opened before it.                                  *)

MaxTextLen == 5

Tokens == {"{", "}", "[", "]", "0", "x", " ", "J", "E"}

RECURSIVE Texts(_)
Texts(n) ==
    IF n = 0 THEN {<<>>}
    ELSE Texts(n - 1) \cup {Append(s, c) : s \in {u \in Texts(n - 1) : Len(u) = n - 1},
                                           c \in Tokens}

NotWhite(c) == c # " "

RECURSIVE IsJsonValue(_)
\* The grammar of JSON on these tokens, white space removed: 0, {}, [], [value].
IsJsonValue(t) ==
    \/ t = <<"0">>
    \/ t = <<"{", "}">>
    \/ t = <<"[", "]">>
    \/ /\ Len(t) > 2
       /\ t[1] = "["
       /\ t[Len(t)] = "]"
       /\ IsJsonValue(SubSeq(t, 2, Len(t) - 1))

RECURSIVE JsonValue(_)
JsonValue(t) ==
    CASE t = <<"0">> -> JNum(0)
      [] t = <<"{", "}">> -> EmptyObject
      [] t = <<"[", "]">> -> JArr(<<>>)
      [] OTHER -> JArr(<<JsonValue(SubSeq(t, 2, Len(t) - 1))>>)

\* JSON.parse(text): the value, or the SyntaxError it throws.
JSONparseText(text) ==
    LET t == SelectSeq(text, NotWhite) IN
    IF IsJsonValue(t) THEN [ok |-> TRUE, value |-> JsonValue(t)]
    ELSE [ok |-> FALSE]

Min(S) == CHOOSE m \in S : \A o \in S : m <= o
Max(S) == CHOOSE m \in S : \A o \in S : m >= o

\* text.indexOf(c) and text.lastIndexOf(c), counted from 1; 0 stands for -1.
IndexOf(text, c) ==
    LET at == {i \in 1..Len(text) : text[i] = c} IN IF at = {} THEN 0 ELSE Min(at)

LastIndexOf(text, c) ==
    LET at == {i \in 1..Len(text) : text[i] = c} IN IF at = {} THEN 0 ELSE Max(at)

RECURSIVE TrimLeft(_)
TrimLeft(s) == IF s # <<>> /\ Head(s) = " " THEN TrimLeft(Tail(s)) ELSE s

RECURSIVE TrimRight(_)
TrimRight(s) ==
    IF s # <<>> /\ s[Len(s)] = " " THEN TrimRight(SubSeq(s, 1, Len(s) - 1)) ELSE s

\* text.match(/```json\s*([\s\S]*?)\s*```/): the first opening fence that a
\* fence follows; the group is what lies between them, white space trimmed.
FenceMatch(text) ==
    LET open == IndexOf(text, "J")
        closers == {j \in (open + 1)..Len(text) : text[j] \in {"J", "E"}}
    IN  IF open = 0 \/ closers = {} THEN [matched |-> FALSE]
        ELSE [matched |-> TRUE,
              group |-> TrimRight(TrimLeft(SubSeq(text, open + 1, Min(closers) - 1)))]

Returned(v) == [kind |-> "return", value |-> v]
Thrown(m) == [kind |-> "throw", message |-> m]

MalformedFenceMessage == "Model response contained malformed JSON inside a code block."
NotArrayMessage == "Model response is not a valid JSON array. Please try again."
NotJsonMessage == "Model response is not valid JSON. Please try again."

\* geminiService.ts:245-251
ArrayStrategy(text) ==
    LET arrayStartIndex == IndexOf(text, "[")
        arrayEndIndex == LastIndexOf(text, "]")
        arrayString == JSONparseText(SubSeq(text, arrayStartIndex, arrayEndIndex))
    IN  IF arrayStartIndex # 0 /\ arrayEndIndex # 0 /\ arrayEndIndex > arrayStartIndex
        THEN IF arrayString.ok THEN Returned(arrayString.value)
             ELSE Thrown(NotArrayMessage)
        ELSE Thrown(NotJsonMessage)

\* geminiService.ts:239-251
ObjectStrategy(text) ==
    LET startIndex == IndexOf(text, "{")
        endIndex == LastIndexOf(text, "}")
        jsonString == JSONparseText(SubSeq(text, startIndex, endIndex))
    IN  IF startIndex # 0 /\ endIndex # 0 /\ endIndex > startIndex /\ jsonString.ok
        THEN Returned(jsonString.value)
        ELSE ArrayStrategy(text)

\* A getJsonFromResponse that never looks for a fenced block
SkipFence(text) == ObjectStrategy(text)

\* geminiService.ts:235-251
FenceStrategy(text) ==
    LET match == FenceMatch(text) IN
    IF match.matched /\ match.group # <<>>
    THEN IF JSONparseText(match.group).ok
         THEN Returned(JSONparseText(match.group).value)
         ELSE Thrown(MalformedFenceMessage)
    ELSE ObjectStrategy(text)

getJsonFromResponse(text) ==
    IF JSONparseText(text).ok THEN Returned(JSONparseText(text).value)
    ELSE FenceStrategy(text)

----------------------------------------------------------------------------
(* The prompts.  A prompt is held as the template that spells it, the      *)
(* tongue the template is written in, and the values interpolated.         *)

NoLocation == [isNull |-> TRUE]
Locations == {[latitude |-> 0, longitude |-> 0], [latitude |-> 1, longitude |-> 0]}

generateJsonPrompt_es(context) ==
    [template |-> "generateJsonPrompt", tongue |-> "es", context |-> context]
generateJsonPrompt_en(context) ==
    [template |-> "generateJsonPrompt", tongue |-> "en", context |-> context]
generateDiseaseJsonPrompt_es(context) ==
    [template |-> "generateDiseaseJsonPrompt", tongue |-> "es", context |-> context]
generateDiseaseJsonPrompt_en(context) ==
    [template |-> "generateDiseaseJsonPrompt", tongue |-> "en", context |-> context]
generateCompareJsonPrompt_es(plantA, plantB) ==
    [template |-> "generateCompareJsonPrompt", tongue |-> "es",
     plantA |-> plantA, plantB |-> plantB]
generateCompareJsonPrompt_en(plantA, plantB) ==
    [template |-> "generateCompareJsonPrompt", tongue |-> "en",
     plantA |-> plantA, plantB |-> plantB]

\* A remedy prompt that never carries the coordinates
generateFindPlantsPrompt_bare(usage, location) ==
    [template |-> "generateFindPlantsPrompt", tongue |-> "es", usage |-> usage,
     prioritize |-> <<>>]

\* if (location) prompt += ' Prioriza plantas nativas ... latitud ... longitud ...'
generateFindPlantsPrompt_es(usage, location) ==
    [template |-> "generateFindPlantsPrompt", tongue |-> "es", usage |-> usage,
     prioritize |-> IF location # NoLocation
                    THEN <<location.latitude, location.longitude>>
                    ELSE <<>>]
generateFindPlantsPrompt_en(usage, location) ==
    [template |-> "generateFindPlantsPrompt", tongue |-> "en", usage |-> usage,
     prioritize |-> IF location # NoLocation
                    THEN <<location.latitude, location.longitude>>
                    ELSE <<>>]

generateCareGuidePrompt_es(plant) ==
    [template |-> "generateCareGuidePrompt", tongue |-> "es", plant |-> plant]
generateCareGuidePrompt_en(plant) ==
    [template |-> "generateCareGuidePrompt", tongue |-> "en", plant |-> plant]

\* The context sentence of identifyPlantFromImage (geminiService.ts:344-351)
ImageContext(location, lang) ==
    IF lang = "es"
    THEN [sentence |-> "Identifica la planta en la siguiente imagen", tongue |-> "es",
          near |-> IF location # NoLocation
                   THEN <<location.latitude, location.longitude>>
                   ELSE <<>>]
    ELSE [sentence |-> "Identify the plant in the following image", tongue |-> "en",
          near |-> IF location # NoLocation
                   THEN <<location.latitude, location.longitude>>
                   ELSE <<>>]

\* A context sentence that is Spanish whatever the language
SpanishTextContext(plantName, lang) ==
    [sentence |-> "Busca informacion sobre la planta llamada", tongue |-> "es",
     plantName |-> plantName]

\* geminiService.ts:364
TextContext(plantName, lang) ==
    IF lang = "es"
    THEN [sentence |-> "Busca informacion sobre la planta llamada", tongue |-> "es",
          plantName |-> plantName]
    ELSE [sentence |-> "Find information about the plant named", tongue |-> "en",
          plantName |-> plantName]

\* geminiService.ts:408
DiseaseContext(lang) ==
    IF lang = "es"
    THEN [sentence |-> "Analiza la siguiente imagen de una planta", tongue |-> "es"]
    ELSE [sentence |-> "Analyze the following image of a plant", tongue |-> "en"]

\* geminiService.ts:311-313
MapPrompt(plantInfo, lang) ==
    [template |-> "distributionMap", tongue |-> IF lang = "es" THEN "es" ELSE "en",
     plant |-> plantInfo.nombreCientifico, description |-> plantInfo.distribucionGeografica]

\* geminiService.ts:372-374
ImagePrompt(plantInfo, lang) ==
    [template |-> "photograph", tongue |-> IF lang = "es" THEN "es" ELSE "en",
     plant |-> plantInfo.nombreCientifico, commonName |-> plantInfo.nombreComun]

----------------------------------------------------------------------------
(* Errors. *)

NoKeyMessage == "No API key was provided to initialize the AI client."
QuotaMessage ==
    "The free query limit has been reached. Please enter your own API key to continue."
GenericMessage ==
    "Could not get a response from the model. Please check your query or try again later."
NoDataMessage == "Could not extract structured information from the model's response."
PlantFormatMessage ==
    "The model's response was not in the expected format. The plant may not have been recognized."
DiseaseFormatMessage == "The model's response for the disease was not in the expected format."
ModelErrorText == "Could not identify the plant."
CountedErrorText == "No match among the 429 species on record."

\* What generateContent rejects with: an Error with a message, or another value.
ErrorOf(message) == [isError |-> TRUE, message |-> message]
RawFailures ==
    {ErrorOf("429 Too Many Requests"),
     ErrorOf("Resource has been exhausted (e.g. check quota)."),
     ErrorOf("API key not valid. Please pass a valid API key."),
     ErrorOf("Failed to fetch"),
     [isError |-> FALSE, message |-> "aborted"]}

\* message.includes('429')
Includes429(message) == message \in {"429 Too Many Requests", CountedErrorText}
\* message.toLowerCase().includes('resource has been exhausted')
IncludesExhausted(message) ==
    message \in {"Resource has been exhausted (e.g. check quota)."}
\* message.toLowerCase().includes('api key not valid')
IncludesKeyNotValid(message) ==
    message \in {"API key not valid. Please pass a valid API key."}

\* handleApiError(error): the message of the Error it throws
handleApiError(error) ==
    IF error.isError
    THEN IF Includes429(error.message) \/ IncludesExhausted(error.message)
         THEN QuotaMessage
         ELSE error.message
    ELSE GenericMessage

\* A getAiClient that takes any key
acceptsEveryKey(apiKey) == FALSE

\* getAiClient(apiKey) throws on an empty key
getAiClientThrows(apiKey) == apiKey = ""

----------------------------------------------------------------------------
(* Grounding sources. *)

MaxChunks == 2

NoWeb == [isNull |-> TRUE]
UriValues == {NoString, "", "https://a", "https://b"}
TitleValues == {NoString, "", "Flora"}
Chunks == {[web |-> NoWeb]} \cup
          {[web |-> [uri |-> u, title |-> t]] : u \in UriValues, t \in TitleValues}

RECURSIVE ChunkLists(_)
ChunkLists(n) ==
    IF n = 0 THEN {<<>>}
    ELSE ChunkLists(n - 1) \cup
         {Append(s, c) : s \in {u \in ChunkLists(n - 1) : Len(u) = n - 1}, c \in Chunks}

\* response.candidates?.[0]?.groundingMetadata?.groundingChunks: the list, or
\* the link of the chain that is undefined
Groundings ==
    {[missing |-> m] : m \in {"candidates", "groundingMetadata", "groundingChunks"}}
    \cup {[chunks |-> l] : l \in ChunkLists(MaxChunks)}

\* chunk.web?.key || fallback
WebOr(chunk, key, fallback) ==
    IF chunk.web = NoWeb THEN fallback
    ELSE IF chunk.web[key] \in {NoString, ""} THEN fallback ELSE chunk.web[key]

\* chunk => ({ uri: chunk.web?.uri || '', title: chunk.web?.title || 'Untitled Source' })
SourceOfChunk(chunk) ==
    [uri |-> WebOr(chunk, "uri", ""), title |-> WebOr(chunk, "title", "Untitled Source")]

\* A filter that keeps every source
KeepEverySource(source) == TRUE

\* source => source.uri
KeepSource(source) == source.uri # ""

\* groundingChunks?.map(...).filter(source => source.uri) || []
GroundingSources(grounding) ==
    IF "missing" \in DOMAIN grounding THEN <<>>
    ELSE SelectSeq([i \in 1..Len(grounding.chunks) |-> SourceOfChunk(grounding.chunks[i])],
                   KeepSource)

----------------------------------------------------------------------------
(* The other sanitizers. *)

\* sanitizeDiseaseInfo(data)
sanitizeDiseaseInfo(data) ==
    IF ~Truthy(data) \/ TypeOf(data) # "object" THEN Null
    ELSE IF Truthy(Field(data, "error")) THEN Null
    ELSE LET sanitized ==
                 [nombreEnfermedad |->
                      StringOr(Field(data, "nombreEnfermedad"), "Diagnosis not available"),
                  plantaAfectada |-> StringList(Field(data, "plantaAfectada")),
                  sintomas |-> StringList(Field(data, "sintomas")),
                  causas |-> StringList(Field(data, "causas")),
                  tratamientoOrganico |-> StringList(Field(data, "tratamientoOrganico")),
                  tratamientoQuimico |-> StringList(Field(data, "tratamientoQuimico")),
                  prevencion |-> StringList(Field(data, "prevencion"))]
         IN  IF sanitized.nombreEnfermedad = "Diagnosis not available"
                \/ Len(sanitized.sintomas) = 0
             THEN Null
             ELSE sanitized

\* The callback of data.map in sanitizeSuggestedPlants
SanitizeSuggestion(item) ==
    IF /\ TypeOf(item) = "object"
       /\ item # JNull
       /\ Field(item, "nombreComun").t = "string"
       /\ Field(item, "relevancia").t = "string"
    THEN [nombreComun |-> Field(item, "nombreComun").s,
          relevancia |-> Field(item, "relevancia").s]
    ELSE Null

\* sanitizeSuggestedPlants(data)
sanitizeSuggestedPlants(data) ==
    IF ~IsArray(data) THEN Null
    ELSE LET sanitized ==
                 DropNull([i \in 1..Len(data.items) |-> SanitizeSuggestion(data.items[i])])
         IN  IF Len(sanitized) > 0 THEN [items |-> sanitized] ELSE Null

\* sanitizeComparisonInfo(data); of the record it builds, the summary is kept
sanitizeComparisonInfo(data) ==
    IF ~Truthy(data) \/ TypeOf(data) # "object" THEN Null
    ELSE [resumenComparativo |-> StringOr(Field(data, "resumenComparativo"), "N/A")]

\* sanitizeCareGuide(data); of the record it builds, the watering advice is kept
sanitizeCareGuide(data) ==
    IF ~Truthy(data) \/ TypeOf(data) # "object" THEN Null
    ELSE [riego |-> StringOr(Field(Field(data, "riego"), "consejo"), "N/A")]

----------------------------------------------------------------------------
(* What the model answers. *)

GoodPlantData ==
    JObj([nombreComun |-> JStr("Dog rose"), nombreCientifico |-> JStr("Rosa canina"),
          distribucionGeografica |-> JStr("Europe and western Asia")])
UnmappedPlantData ==
    JObj([nombreComun |-> JStr("Sage"), nombreCientifico |-> JStr("Salvia officinalis")])
ErrorData == JObj([error |-> JStr(ModelErrorText)])
CountedErrorData == JObj([error |-> JStr(CountedErrorText)])
GoodDiseaseData ==
    JObj([nombreEnfermedad |-> JStr("Powdery mildew"),
          sintomas |-> JArr(<<JStr("white spots")>>)])
SuggestionsData ==
    JArr(<<JObj([nombreComun |-> JStr("Chamomile"), relevancia |-> JStr("calming")])>>)

DataSamples == {GoodPlantData, UnmappedPlantData, ErrorData, CountedErrorData, GoodDiseaseData,
                SuggestionsData, EmptyObject, JNull, JNum(0)}

\* getJsonFromResponse(response.text): what it returns or throws
ParsedOutcomes ==
    {Thrown(m) : m \in {MalformedFenceMessage, NotArrayMessage, NotJsonMessage}}
    \cup {Returned(d) : d \in DataSamples}

\* generateContent of a text model: it rejects, or it answers a text
TextReplies(groundings) ==
    {[kind |-> "throw", error |-> e] : e \in RawFailures}
    \cup {[kind |-> "text", parsed |-> p, grounding |-> g] :
              p \in ParsedOutcomes, g \in groundings}

\* generateContent of the image model: it rejects, answers a part with
\* inlineData, answers parts without, or answers with no candidate
ImageReplies ==
    {[kind |-> "throw", error |-> e] : e \in RawFailures}
    \cup {[kind |-> k] : k \in {"image", "noInlineData", "noCandidates"}}

NoReply == [kind |-> "none"]

----------------------------------------------------------------------------
(* The exported functions of the service.  Each yields the requests it     *)
(* sent to generateContent, in order, and what it returned or threw.       *)

CompareEmptyMessage == "The model's response for the comparison is empty."
CompareFormatMessage == "Could not process the comparison from the model."
RemedyEmptyMessage == "The model's response for remedy search is empty."
RemedyFormatMessage == "Could not find valid suggestions from the model."
GuideEmptyMessage == "The model's response for the care guide is empty."
GuideFormatMessage == "Could not process the care guide from the model."

\* The image sources: a data URL, told by what it shows
Src(kind) == [dataUrl |-> kind]

\* The argument of ai.models.generateContent
Request(apiKey, model, prompt, withImage, config) ==
    [apiKey |-> apiKey, model |-> model, prompt |-> prompt,
     imagePart |-> withImage, config |-> config]

\* catch (error) { handleApiError(error) }
Caught(error) == Thrown(handleApiError(error))

\* From `const data = getJsonFromResponse(response.text)` to the sanitized
\* data, inside the try block whose catch is handleApiError
\* if (!sanitizedData) throw new Error(formatMessage); ... sanitizedData
Sanitized(sanitizedData, formatMessage) ==
    IF sanitizedData = Null THEN [thrown |-> TRUE, error |-> ErrorOf(formatMessage)]
    ELSE [thrown |-> FALSE, value |-> sanitizedData]

\* The try block from `getJsonFromResponse(response.text)` to the sanitized
\* data: the error it throws, or the data
Tried(reply, sanitize(_), emptyMessage, formatMessage) ==
    IF reply.kind = "throw" THEN [thrown |-> TRUE, error |-> reply.error]
    ELSE IF reply.parsed.kind = "throw"
    THEN [thrown |-> TRUE, error |-> ErrorOf(reply.parsed.message)]
    ELSE IF ~Truthy(reply.parsed.value)
    THEN [thrown |-> TRUE, error |-> ErrorOf(emptyMessage)]
    ELSE IF Truthy(Field(reply.parsed.value, "error"))
    THEN [thrown |-> TRUE, error |-> ErrorOf(StringOf(Field(reply.parsed.value, "error")))]
    ELSE Sanitized(sanitize(reply.parsed.value), formatMessage)

\* try { ... } catch (error) { handleApiError(error) }
Settled(tried) == IF tried.thrown THEN Caught(tried.error) ELSE Returned(tried.value)

Digest(reply, sanitize(_), emptyMessage, formatMessage) ==
    Settled(Tried(reply, sanitize, emptyMessage, formatMessage))

\* return { <key>: sanitizedData, sources }
Grounded(data, key, grounding) ==
    IF data.kind = "throw" THEN data
    ELSE Returned([k \in {key, "sources"} |->
                       IF k = key THEN data.value ELSE GroundingSources(grounding)])

getPlantInfo(apiKey, prompt, withImage, useGrounding, reply) ==
    IF getAiClientThrows(apiKey)
    THEN [sent |-> <<>>, result |-> Caught(ErrorOf(NoKeyMessage))]
    ELSE [sent |-> <<Request(apiKey, "gemini-2.5-flash", prompt, withImage,
                             IF useGrounding THEN "googleSearch"
                             ELSE "application/json")>>,
          result |-> Grounded(Digest(reply, sanitizePlantInfo, NoDataMessage,
                                     PlantFormatMessage),
                              "plantInfo", reply.grounding)]

\* text.includes('no disponible') || text.includes('not available')
IncludesNotAvailable(text) ==
    text \in {"Geographic distribution not available.",
              "Distribucion geografica no disponible."}

\* A generateDistributionMap without its first test: it asks for the map
\* whatever the distribution says
generateDistributionMapAlways(apiKey, plantInfo, lang, reply) ==
    IF getAiClientThrows(apiKey) THEN [sent |-> <<>>, value |-> Null]
    ELSE [sent |-> <<Request(apiKey, "gemini-2.5-flash-image", MapPrompt(plantInfo, lang),
                             FALSE, "IMAGE")>>,
          value |-> IF reply.kind = "image" THEN Src("map") ELSE Null]

\* generateDistributionMap: value is the data URL of the map, or Null
generateDistributionMap(apiKey, plantInfo, lang, reply) ==
    IF plantInfo.distribucionGeografica = ""
       \/ IncludesNotAvailable(plantInfo.distribucionGeografica)
    THEN [sent |-> <<>>, value |-> Null]
    ELSE IF getAiClientThrows(apiKey) THEN [sent |-> <<>>, value |-> Null]
    ELSE [sent |-> <<Request(apiKey, "gemini-2.5-flash-image", MapPrompt(plantInfo, lang),
                             FALSE, "IMAGE")>>,
          value |-> IF reply.kind = "image" THEN Src("map") ELSE Null]

\* A map that is asked for before the plant information
WithMapFirst(info, map) ==
    [sent |-> map.sent \o info.sent,
     result |-> Returned([plantInfo |-> info.result.value.plantInfo,
                          sources |-> info.result.value.sources,
                          mapaDistribucionSrc |-> map.value])]

\* const mapaDistribucionSrc = await generateDistributionMap(...);
\* return { plantInfo, sources, mapaDistribucionSrc }
WithMap(info, map) ==
    [sent |-> info.sent \o map.sent,
     result |-> Returned([plantInfo |-> info.result.value.plantInfo,
                          sources |-> info.result.value.sources,
                          mapaDistribucionSrc |-> map.value])]

\* identifyPlantFromImage and identifyPlantFromText after `await getPlantInfo(...)`
ThenMap(apiKey, lang, info, mapReply) ==
    IF info.result.kind = "throw" THEN info
    ELSE WithMap(info, generateDistributionMap(apiKey, info.result.value.plantInfo,
                                               lang, mapReply))

identifyPlantFromImage(apiKey, location, lang, reply, mapReply) ==
    ThenMap(apiKey, lang,
               getPlantInfo(apiKey,
                            IF lang = "es"
                            THEN generateJsonPrompt_es(ImageContext(location, lang))
                            ELSE generateJsonPrompt_en(ImageContext(location, lang)),
                            TRUE, TRUE, reply),
               mapReply)

\* identifyPlantFromText after the map: the image of the plant, whose
\* failure is caught and reported in the result
WithImage(apiKey, lang, found, imageReply) ==
    IF getAiClientThrows(apiKey)
    THEN [sent |-> found.sent,
          result |-> Returned(With(With(found.result.value, "imageSrc", Null),
                                   "imageError", TRUE))]
    ELSE [sent |-> found.sent \o
                   <<Request(apiKey, "gemini-2.5-flash-image",
                             ImagePrompt(found.result.value.plantInfo, lang),
                             FALSE, "IMAGE")>>,
          result |-> IF imageReply.kind = "image"
                     THEN Returned(With(found.result.value, "imageSrc", Src("generated")))
                     ELSE Returned(With(With(found.result.value, "imageSrc", Null),
                                        "imageError", TRUE))]

\* identifyPlantFromText after `await generateDistributionMap(...)`
ThenImage(apiKey, lang, found, imageReply) ==
    IF found.result.kind = "throw" THEN found
    ELSE WithImage(apiKey, lang, found, imageReply)

identifyPlantFromText(apiKey, plantName, lang, reply, mapReply, imageReply) ==
    ThenImage(apiKey, lang,
                ThenMap(apiKey, lang,
                           getPlantInfo(apiKey,
                                        IF lang = "es"
                                        THEN generateJsonPrompt_es(TextContext(plantName, lang))
                                        ELSE generateJsonPrompt_en(TextContext(plantName, lang)),
                                        FALSE, FALSE, reply),
                           mapReply),
                imageReply)

diagnosePlantDiseaseFromImage(apiKey, lang, reply) ==
    IF getAiClientThrows(apiKey)
    THEN [sent |-> <<>>, result |-> Caught(ErrorOf(NoKeyMessage))]
    ELSE [sent |-> <<Request(apiKey, "gemini-2.5-flash",
                             IF lang = "es"
                             THEN generateDiseaseJsonPrompt_es(DiseaseContext(lang))
                             ELSE generateDiseaseJsonPrompt_en(DiseaseContext(lang)),
                             TRUE, "application/json")>>,
          result |-> Grounded(Digest(reply, sanitizeDiseaseInfo, NoDataMessage,
                                     DiseaseFormatMessage),
                              "diseaseInfo", reply.grounding)]

comparePlants(apiKey, plantA, plantB, lang, reply) ==
    IF getAiClientThrows(apiKey)
    THEN [sent |-> <<>>, result |-> Caught(ErrorOf(NoKeyMessage))]
    ELSE LET textPart == IF lang = "es" THEN generateCompareJsonPrompt_es(plantA, plantB)
                         ELSE generateCompareJsonPrompt_en(plantA, plantB)
         IN  [sent |-> <<Request(apiKey, "gemini-2.5-flash", textPart, FALSE,
                                 "application/json")>>,
              result |-> Digest(reply, sanitizeComparisonInfo, CompareEmptyMessage,
                                CompareFormatMessage)]

findPlantsByUsage(apiKey, usage, location, lang, reply) ==
    IF getAiClientThrows(apiKey)
    THEN [sent |-> <<>>, result |-> Caught(ErrorOf(NoKeyMessage))]
    ELSE LET textPart == IF lang = "es" THEN generateFindPlantsPrompt_es(usage, location)
                         ELSE generateFindPlantsPrompt_en(usage, location)
         IN  [sent |-> <<Request(apiKey, "gemini-2.5-flash", textPart, FALSE,
                                 "application/json")>>,
              result |-> Digest(reply, sanitizeSuggestedPlants, RemedyEmptyMessage,
                                RemedyFormatMessage)]

generateCareGuide(apiKey, plant, lang, reply) ==
    IF getAiClientThrows(apiKey)
    THEN [sent |-> <<>>, result |-> Caught(ErrorOf(NoKeyMessage))]
    ELSE LET textPart == IF lang = "es" THEN generateCareGuidePrompt_es(plant)
                         ELSE generateCareGuidePrompt_en(plant)
         IN  [sent |-> <<Request(apiKey, "gemini-2.5-flash", textPart, FALSE,
                                 "application/json")>>,
              result |-> Digest(reply, sanitizeCareGuide, GuideEmptyMessage,
                                GuideFormatMessage)]

----------------------------------------------------------------------------
(* The App component: its state, and the helpers its handlers share.       *)

HistoryLimit == 30

ApiKeys == {"user-key"}
Queries == {"mint"}

\* t(key): the translation tables are fetched at run time; until they
\* arrive, and for a key they lack, t returns the key.
t(key) == key

\* const effectiveApiKey = userApiKey || envApiKey
EffectiveApiKey(user, env) == IF user # "" THEN user ELSE env

\* The initial values of the useState cells
InitialApp ==
    [view |-> "main", image |-> Null, isLoading |-> FALSE, isTextSearching |-> FALSE,
     error |-> NoText, currentResult |-> Null, history |-> <<>>, herbarium |-> <<>>,
     isHistoryOpen |-> FALSE, isHerbariumOpen |-> FALSE, mainMode |-> "identify",
     isApiKeyModalOpen |-> FALSE,
     comparisonPlants |-> [plantA |-> Null, plantB |-> Null],
     comparisonResult |-> Null, suggestedPlants |-> Null, remedyQuery |-> "",
     isGeneratingCareGuide |-> FALSE, notification |-> NoText,
     herbariumSortOrder |-> "date-desc", herbariumNameFilter |-> "",
     herbariumUseFilter |-> "", theme |-> "light"]

\* The initializer of the theme cell: the stored theme when it is one of the
\* two, otherwise what prefers-color-scheme says
InitialTheme(storage, prefersDark) ==
    IF storage.theme \in {[text |-> "light"], [text |-> "dark"]} THEN storage.theme.text
    ELSE IF prefersDark THEN "dark" ELSE "light"

\* The effect on theme: localStorage.setItem('theme', theme)
ThemeEffect(storage, theme) == [storage EXCEPT !.theme = [text |-> theme]]

\* The storage of a browser that never opened the page
EmptyStorage ==
    [plantHistory |-> NoItem, plantHerbarium |-> NoItem, userApiKey |-> NoItem,
     theme |-> NoItem]

\* The mount effect: read plantHistory and plantHerbarium
MountEffect(s, storage) ==
    [s EXCEPT !.history = IF HasItem(storage.plantHistory)
                          THEN JSONparse(storage.plantHistory) ELSE @,
              !.herbarium = IF HasItem(storage.plantHerbarium)
                            THEN JSONparse(storage.plantHerbarium) ELSE @]

\* The effect on effectiveApiKey: without a key the dialog opens
KeyEffect(s, key) == IF key = "" THEN [s EXCEPT !.isApiKeyModalOpen = TRUE] ELSE s

\* The page after its first render and its mount effects
Mounted(storage, key, prefersDark) ==
    KeyEffect(MountEffect([InitialApp EXCEPT !.theme = InitialTheme(storage, prefersDark)],
                          storage), key)

\* The mount effect of ApiKeyProvider: the stored key, "" when there is none
StoredKey(storage) == IF storage.userApiKey = NoItem THEN "" ELSE storage.userApiKey.text

\* A reset that forgets the mode: the same without setMainMode('identify')
handleResetKeepsMode(s) ==
    [s EXCEPT !.image = Null, !.currentResult = Null, !.error = NoText,
              !.isLoading = FALSE, !.isTextSearching = FALSE, !.view = "main",
              !.comparisonPlants = [plantA |-> Null, plantB |-> Null],
              !.comparisonResult = Null, !.suggestedPlants = Null,
              !.remedyQuery = ""]

\* handleReset: the eleven setters
handleReset(s) ==
    [s EXCEPT !.image = Null, !.currentResult = Null, !.error = NoText,
              !.isLoading = FALSE, !.isTextSearching = FALSE, !.view = "main",
              !.comparisonPlants = [plantA |-> Null, plantB |-> Null],
              !.comparisonResult = Null, !.suggestedPlants = Null,
              !.remedyQuery = "", !.mainMode = "identify"]

\* The state a handler works on: the cells, the storage, and whether a
\* localStorage.setItem threw (QuotaExceededError) on the way.
Work(s, storage) == [app |-> s, storage |-> storage, threw |-> FALSE]

\* A saveHistory that forgets the storage: setHistory(sorted) alone
setHistoryOnly(w, newHistory, written) ==
    [app |-> [w.app EXCEPT !.history = SortDesc(newHistory)], storage |-> w.storage,
     threw |-> FALSE]

\* saveHistory(newHistory); written is FALSE when setItem throws
saveHistory(w, newHistory, written) ==
    LET sorted == SortDesc(newHistory) IN
    IF written
    THEN [app |-> [w.app EXCEPT !.history = sorted],
          storage |-> [w.storage EXCEPT !.plantHistory = JSONstringify(sorted)],
          threw |-> FALSE]
    ELSE [app |-> [w.app EXCEPT !.history = sorted], storage |-> w.storage,
          threw |-> TRUE]

\* saveHerbarium(newHerbarium)
saveHerbarium(w, newHerbarium, written) ==
    IF written
    THEN [app |-> [w.app EXCEPT !.herbarium = newHerbarium],
          storage |-> [w.storage EXCEPT !.plantHerbarium = JSONstringify(newHerbarium)],
          threw |-> FALSE]
    ELSE [app |-> [w.app EXCEPT !.herbarium = newHerbarium], storage |-> w.storage,
          threw |-> TRUE]

QuotaExceededMessage == "The quota has been exceeded."

\* createThumbnail(dataUrl): an SVG is returned as it is, a photograph is
\* redrawn at 400 pixels.  (The data URLs of the model come from the browser
\* or from the image model, and load.)
createThumbnail(src) ==
    IF src.dataUrl = "placeholder" THEN src ELSE Src("thumbnail")

\* The entry with its images replaced by thumbnails
Thumbnailed(entry) ==
    With(With(entry, "imageSrc", createThumbnail(entry.imageSrc)),
         "mapaDistribucionSrc",
         IF Get(entry, "mapaDistribucionSrc") # Undefined
         THEN createThumbnail(entry.mapaDistribucionSrc) ELSE Undefined)

\* handleProcessResult(newEntry), run by a handler that captured `history`.
\* written1 and written2: whether the setItem of the try block and the one
\* of the catch block succeed.
handleProcessResult(w, history, newEntry, written1, written2) ==
    LET finalEntry == Thumbnailed(newEntry)
        tried == saveHistory([w EXCEPT !.app.currentResult = finalEntry],
                             Slice(<<finalEntry>> \o history, HistoryLimit), written1)
    IN  IF ~tried.threw THEN tried
        ELSE saveHistory([tried EXCEPT !.app.currentResult = newEntry],
                         Slice(<<newEntry>> \o history, HistoryLimit), written2)

\* errorMessage.includes('429') || ...'resource has been exhausted' || ...'api key not valid'
OpensKeyDialog(message) ==
    Includes429(message) \/ IncludesExhausted(message) \/ IncludesKeyNotValid(message)

\* The full-screen dialogs, in the order they are drawn: a later one covers
\* an earlier one and everything else.
ModalOpen(s) == s.isApiKeyModalOpen \/ s.isHistoryOpen \/ s.isHerbariumOpen

\* What renderMainView / renderComparatorView shows
Screen(s) ==
    IF s.view # "main" THEN "comparator"
    ELSE IF s.isLoading THEN "loader"
    ELSE IF s.error # NoText THEN "error"
    ELSE IF s.currentResult # Null THEN "result"
    ELSE IF s.image # Null THEN "image"
    ELSE IF s.suggestedPlants # Null THEN "suggestions"
    ELSE IF s.mainMode = "discover" THEN "discovery"
    ELSE "input"

\* The user can press a control of this screen
Shows(screen) == ~ModalOpen(app) /\ Screen(app) = screen

\* The handler that starts now, with what its closure captured at render
\* time: its argument, the key, the language, and the cells it reads later
Started(op, arg, cells) ==
    [op |-> op, arg |-> arg, seen |-> [k \in cells |-> app[k]],
     key |-> EffectiveApiKey(userApiKey, envApiKey), lang |-> language]

Quiet == [op |-> "none"]

\* What a finished handler did: the requests it sent and how it ended
Did(h, sent, outcome) ==
    [op |-> h.op, arg |-> h.arg, key |-> h.key, lang |-> h.lang,
     sent |-> sent, outcome |-> outcome]

\* The list without its i-th element
Without(list, i) == SubSeq(list, 1, i - 1) \o SubSeq(list, i + 1, Len(list))

----------------------------------------------------------------------------
(* What the model and the device answer to the App.                        *)

AppGroundings == {[chunks |-> <<[web |-> [uri |-> "https://a", title |-> "Flora"]]>>]}
AppTextReplies ==
    {r \in TextReplies(AppGroundings) :
        \/ r.kind = "throw" /\ OpensKeyDialog(r.error.message)
        \/ r.kind = "text" /\ r.parsed \in
               {Returned(d) : d \in {GoodPlantData, GoodDiseaseData, ErrorData,
                                     SuggestionsData, EmptyObject}}}
AppImageReplies == {[kind |-> "image"], [kind |-> "throw", error |-> ErrorOf("Failed to fetch")]}

\* navigator.geolocation: a position, or none (denied, timed out)
Positions == {[latitude |-> 1, longitude |-> 0], NoLocation}

\* err.message || t('unexpectedError')
MessageOr(message, fallback) == IF message = "" THEN fallback ELSE message

\* Time passes between one event and the next
Tick == now < MaxClock /\ now' = now + 1

\* Press a control that only sets cells of App
Press(s) ==
    /\ Tick
    /\ app' = s
    /\ last' = Quiet
    /\ UNCHANGED <<language, userApiKey, envApiKey, localStorage, inflight,
                   chosenMode, fx>>

\* A control whose handler is handleReset itself; the report keeps what the
\* page held when it was pressed
Reset(s) ==
    /\ Tick
    /\ app' = handleReset(s)
    /\ last' = [op |-> "handleReset", before |-> s, stored |-> localStorage,
                lang |-> language, userKey |-> userApiKey]
    /\ UNCHANGED <<language, userApiKey, envApiKey, localStorage, inflight,
                   chosenMode, fx>>

\* A handler ends in this step
Finish(w, report, rest) ==
    /\ Tick
    /\ app' = w.app
    /\ localStorage' = w.storage
    /\ last' = report
    /\ inflight' = rest
    /\ UNCHANGED <<language, userApiKey, envApiKey, chosenMode, fx>>

\* An async handler passes its first await
Begin(s, h) ==
    /\ Len(inflight) < MaxInflight
    /\ Tick
    /\ app' = s
    /\ inflight' = Append(inflight, h)
    /\ last' = Quiet
    /\ UNCHANGED <<language, userApiKey, envApiKey, localStorage, chosenMode, fx>>

\* if (!effectiveApiKey) { setError(t('apiKeyError')); setIsApiKeyModalOpen(true);
\*                         setIsLoading(false); return; }
WithoutKey(s) ==
    [s EXCEPT !.error = t("apiKeyError"), !.isApiKeyModalOpen = TRUE, !.isLoading = FALSE]

\* A query handler up to its first await: it returns for want of a key, or
\* it goes on to the service
StartQuery(s, h) ==
    IF h.key = ""
    THEN Finish(Work(WithoutKey(s), localStorage), Did(h, <<>>, "noKey"), inflight)
    ELSE Begin(s, h)

\* The mode tabs of MainInput
setMainMode(m) ==
    /\ Shows("input")
    /\ Press([app EXCEPT !.mainMode = m])

\* MainInput.handleFileChange with an image file, then handleImageSelect
handleImageSelect ==
    /\ Shows("input")
    /\ app.mainMode \in {"identify", "diagnose"}
    /\ app' = [handleReset(app) EXCEPT !.image = [mimeType |-> "image/jpeg"]]
    /\ chosenMode' = app.mainMode
    /\ last' = Quiet
    /\ Tick
    /\ UNCHANGED <<language, userApiKey, envApiKey, localStorage, inflight, fx>>

\* MainInput.handleFileChange with a file that is not an image
handleFileChange ==
    /\ Shows("input")
    /\ app.mainMode \in {"identify", "diagnose"}
    /\ Press([app EXCEPT !.error = "The selected file is not an image."])

\* The 'change photo' button
changePhoto ==
    /\ Shows("image")
    /\ Press([app EXCEPT !.image = Null])

processImageStart ==
    /\ Shows("image")
    /\ StartQuery([app EXCEPT !.isLoading = TRUE, !.isTextSearching = FALSE,
                              !.error = NoText, !.currentResult = Null],
                  Started("processImage", Null, {"mainMode", "history"}))

\* A catch block that also empties the history
CatchQueryClearsHistory(s, message) ==
    [s EXCEPT !.error = MessageOr(message, t("unexpectedError")), !.history = <<>>]

\* catch (err) { setError(...); if (...) setIsApiKeyModalOpen(true) }
CatchQuery(s, message) ==
    [s EXCEPT !.error = MessageOr(message, t("unexpectedError")),
              !.isApiKeyModalOpen =
                  IF OpensKeyDialog(MessageOr(message, t("unexpectedError")))
                  THEN TRUE ELSE @]

\* The entry built from what identifyPlantFromImage / identifyPlantFromText returned
PlantEntry(clock, found, imageSrc) ==
    [id |-> <<clock, found.plantInfo.nombreCientifico>>, timestamp |-> clock,
     imageSrc |-> imageSrc, type |-> "plant", plantInfo |-> found.plantInfo,
     sources |-> found.sources,
     mapaDistribucionSrc |-> IF found.mapaDistribucionSrc = Null THEN Undefined
                             ELSE found.mapaDistribucionSrc]

\* The entry built from what diagnosePlantDiseaseFromImage returned
DiseaseEntry(clock, found, imageSrc) ==
    [id |-> <<clock, found.diseaseInfo.nombreEnfermedad>>, timestamp |-> clock,
     imageSrc |-> imageSrc, type |-> "disease", diseaseInfo |-> found.diseaseInfo,
     sources |-> found.sources]

\* handleProcessResult threw: the catch of the handler
CatchStore(w) ==
    IF w.threw THEN [w EXCEPT !.app = CatchQuery(w.app, QuotaExceededMessage)] ELSE w

\* After the service returned or threw: handleProcessResult, or the catch
Settle(h, run, newEntry, written1, written2) ==
    IF run.result.kind = "throw"
    THEN Work(CatchQuery(app, run.result.message), localStorage)
    ELSE CatchStore(handleProcessResult(Work(app, localStorage), h.seen.history,
                                        newEntry, written1, written2))

Outcome(run, w) ==
    IF run.result.kind = "throw" THEN "failed"
    ELSE IF w.threw THEN "notStored" ELSE "done"

\* A processImage whose finally forgets setIsLoading(false)
processImageEndStillLoading(i, run, w) ==
    Finish([w EXCEPT !.app.image = Null],
           Did(inflight[i], run.sent, Outcome(run, w)), Without(inflight, i))

\* processImage after the service: the entry, handleProcessResult, finally
processImageEnd(i, run, w) ==
    Finish([w EXCEPT !.app.isLoading = FALSE, !.app.image = Null],
           Did(inflight[i], run.sent, Outcome(run, w)), Without(inflight, i))

processImageFinally(i, run, written1, written2) ==
    processImageEnd(i, run,
                    Settle(inflight[i], run,
                           IF inflight[i].seen.mainMode = "identify"
                           THEN PlantEntry(now + 1, run.result.value, Src("photo"))
                           ELSE DiseaseEntry(now + 1, run.result.value, Src("photo")),
                           written1, written2))

processImageComplete(i) ==
    /\ inflight[i].op = "processImage"
    /\ \E loaded \in BOOLEAN, location \in Positions, reply \in AppTextReplies,
          mapReply \in AppImageReplies, written1 \in BOOLEAN, written2 \in BOOLEAN :
          processImageFinally(
              i,
              IF ~loaded THEN [sent |-> <<>>, result |-> Thrown("")]
              ELSE IF inflight[i].seen.mainMode = "identify"
              THEN identifyPlantFromImage(inflight[i].key, location, inflight[i].lang,
                                          reply, mapReply)
              ELSE diagnosePlantDiseaseFromImage(inflight[i].key, inflight[i].lang, reply),
              written1, written2)

handleTextSearchStart(query) ==
    /\ \/ Shows("input") /\ app.mainMode = "identify"
       \/ Shows("suggestions")
       \/ Shows("discovery")
    /\ StartQuery([handleReset(app) EXCEPT !.mainMode = "identify", !.isLoading = TRUE,
                                           !.isTextSearching = TRUE],
                  Started("handleTextSearch", query, {"history"}))

\* handleTextSearch after the service: the entry, handleProcessResult, finally
handleTextSearchEnd(i, run, w) ==
    Finish([w EXCEPT !.app.isLoading = FALSE, !.app.isTextSearching = FALSE],
           Did(inflight[i], run.sent, Outcome(run, w)), Without(inflight, i))

TextEntry(clock, found) ==
    With(PlantEntry(clock, found,
                    IF found.imageSrc # Null THEN found.imageSrc ELSE Src("placeholder")),
         "imageGenerationFailed", Get(found, "imageGenerationFailed"))

handleTextSearchFinally(i, run, written1, written2) ==
    handleTextSearchEnd(i, run,
                        Settle(inflight[i], run, TextEntry(now + 1, run.result.value),
                               written1, written2))

handleTextSearchComplete(i) ==
    /\ inflight[i].op = "handleTextSearch"
    /\ \E reply \in AppTextReplies, mapReply \in AppImageReplies,
          imageReply \in AppImageReplies, written1 \in BOOLEAN, written2 \in BOOLEAN :
          handleTextSearchFinally(
              i,
              identifyPlantFromText(inflight[i].key, inflight[i].arg, inflight[i].lang,
                                    reply, mapReply, imageReply),
              written1, written2)

handleRemedySearchStart(query, useGeo) ==
    /\ \/ Shows("input") /\ app.mainMode = "remedy"
       \/ Shows("discovery") /\ ~useGeo
    /\ StartQuery([handleReset(app) EXCEPT !.mainMode = "remedy", !.isLoading = TRUE,
                                           !.remedyQuery = query],
                  Started("handleRemedySearch", [query |-> query, useGeo |-> useGeo], {}))

handleRemedySearchComplete(i) ==
    /\ inflight[i].op = "handleRemedySearch"
    /\ \E position \in Positions, reply \in AppTextReplies :
          LET h == inflight[i]
              location == IF h.arg.useGeo THEN position ELSE NoLocation
              run == findPlantsByUsage(h.key, h.arg.query, location, h.lang, reply)
              message == MessageOr(run.result.message, t("unexpectedError"))
              s == IF run.result.kind = "throw"
                   THEN [app EXCEPT !.error = message,
                                    !.isApiKeyModalOpen =
                                        IF Includes429(message) \/ IncludesKeyNotValid(message)
                                        THEN TRUE ELSE @]
                   ELSE [app EXCEPT !.suggestedPlants = run.result.value]
          IN  Finish(Work([s EXCEPT !.isLoading = FALSE], localStorage),
                     With(With(Did(h, run.sent,
                                   IF run.result.kind = "throw" THEN "failed" ELSE "done"),
                               "askedPosition", h.arg.useGeo),
                          "location", location),
                     Without(inflight, i))

\* The care guide button of ResultCard: shown while the result has no guide,
\* disabled while one is being generated
handleGenerateCareGuideStart ==
    /\ Shows("result")
    /\ app.currentResult.type = "plant"
    /\ Get(app.currentResult, "careGuide") = Undefined
    /\ ~app.isGeneratingCareGuide
    /\ Begin([app EXCEPT !.isGeneratingCareGuide = TRUE, !.error = NoText],
             Started("handleGenerateCareGuide", Null,
                     {"currentResult", "history", "herbarium"}))

handleGenerateCareGuideComplete(i) ==
    /\ inflight[i].op = "handleGenerateCareGuide"
    /\ \E reply \in AppTextReplies, written1 \in BOOLEAN, written2 \in BOOLEAN :
          LET h == inflight[i]
              run == generateCareGuide(h.key, h.seen.currentResult.plantInfo, h.lang, reply)
              updatedResult == With(h.seen.currentResult, "careGuide", run.result.value)
              w1 == saveHistory([Work(app, localStorage) EXCEPT
                                     !.app.currentResult = updatedResult],
                                ReplaceById(h.seen.history, updatedResult), written1)
              w2 == IF w1.threw THEN w1
                    ELSE saveHerbarium(w1, ReplaceById(h.seen.herbarium, updatedResult),
                                       written2)
              w == IF run.result.kind = "throw"
                   THEN Work([app EXCEPT !.error =
                                  MessageOr(run.result.message, t("unexpectedError"))],
                             localStorage)
                   ELSE IF w2.threw THEN [w2 EXCEPT !.app.error = QuotaExceededMessage]
                   ELSE w2
          IN  Finish([w EXCEPT !.app.isGeneratingCareGuide = FALSE],
                     With(Did(h, run.sent, Outcome(run, w)), "before", app),
                     Without(inflight, i))

\* What a finished handleToggleHerbarium did: the id it toggled, the
\* herbarium it found when it ended, and whether the storage held that one
Toggled(h, id, outcome) ==
    [op |-> h.op, arg |-> h.arg, key |-> h.key, lang |-> h.lang, sent |-> <<>>,
     outcome |-> outcome, id |-> id, before |-> app.herbarium,
     persisted |-> IF HasItem(localStorage.plantHerbarium)
                   THEN localStorage.plantHerbarium = JSONstringify(app.herbarium)
                   ELSE app.herbarium = <<>>]

\* handleToggleHerbarium when the herbarium holds the id: it ends at once
handleToggleHerbariumRemove ==
    /\ Shows("result")
    /\ app.currentResult.id \in Ids(app.herbarium)
    /\ \E written \in BOOLEAN :
          LET w == saveHerbarium(Work(app, localStorage),
                                 FilterOutId(app.herbarium, app.currentResult.id), written)
          IN  Finish(w, Toggled(Started("handleToggleHerbarium", Null, {}),
                                app.currentResult.id,
                                IF w.threw THEN "notStored" ELSE "removed"),
                     inflight)

\* handleToggleHerbarium when it does not: it awaits the thumbnails
handleToggleHerbariumStart ==
    /\ Shows("result")
    /\ app.currentResult.id \notin Ids(app.herbarium)
    /\ Begin(app, Started("handleToggleHerbarium", Null, {"currentResult", "herbarium"}))

handleToggleHerbariumComplete(i) ==
    /\ inflight[i].op = "handleToggleHerbarium"
    /\ \E written1 \in BOOLEAN, written2 \in BOOLEAN :
          LET h == inflight[i]
              finalEntry == Thumbnailed(h.seen.currentResult)
              tried == saveHerbarium(Work(app, localStorage),
                                     <<finalEntry>> \o h.seen.herbarium, written1)
              again == saveHerbarium(tried, <<h.seen.currentResult>> \o h.seen.herbarium,
                                     written2)
              w == IF ~tried.threw THEN tried ELSE again
          IN  Finish(IF w.threw THEN w
                     ELSE [w EXCEPT !.app.notification = t("savedToHerbarium")],
                     Toggled(h, h.seen.currentResult.id,
                             IF w.threw THEN "notStored" ELSE "added"),
                     Without(inflight, i))

\* The timer of the Notification component
closeNotification ==
    /\ app.notification # NoText
    /\ Press([app EXCEPT !.notification = NoText])

\* The buttons that call handleReset: Try again, the reset of a result card
\* and of the suggestions, Back in the comparator
handleResetPressed ==
    /\ ~ModalOpen(app)
    /\ Screen(app) \in {"error", "result", "suggestions", "comparator"}
    /\ Reset(app)

openHistory ==
    /\ ~ModalOpen(app)
    /\ Screen(app) \in {"input", "discovery"}
    /\ Len(app.history) > 0
    /\ Press([app EXCEPT !.isHistoryOpen = TRUE])

openHerbarium ==
    /\ ~ModalOpen(app)
    /\ Screen(app) \in {"input", "discovery"}
    /\ Len(app.herbarium) > 0
    /\ Press([app EXCEPT !.isHerbariumOpen = TRUE])

closeHistory ==
    /\ app.isHistoryOpen
    /\ Press([app EXCEPT !.isHistoryOpen = FALSE])

\* item.plantInfo?.nombreComun || item.diseaseInfo?.nombreEnfermedad || ''
EntryName(item) ==
    IF "plantInfo" \in DOMAIN item /\ item.plantInfo.nombreComun # ""
    THEN item.plantInfo.nombreComun
    ELSE IF "diseaseInfo" \in DOMAIN item /\ item.diseaseInfo.nombreEnfermedad # ""
    THEN item.diseaseInfo.nombreEnfermedad
    ELSE ""

\* A name filter that tells the capitals from the small letters
NameMatchesCase(item, nameFilter) ==
    includes(Spell(EntryName(item)), Spell(nameFilter))

\* name.toLowerCase().includes(herbariumNameFilter.toLowerCase())
NameMatches(item, nameFilter) ==
    includes(toLowerCase(Spell(EntryName(item))), toLowerCase(Spell(nameFilter)))

\* !herbariumUseFilter || (item.type === 'plant' &&
\*     item.plantInfo?.usosMedicinales.some(uso => uso.toLowerCase().includes(...)))
UseMatches(item, useFilter) ==
    \/ useFilter = ""
    \/ /\ item.type = "plant"
       /\ "plantInfo" \in DOMAIN item
       /\ \E i \in 1..Len(item.plantInfo.usosMedicinales) :
              includes(toLowerCase(Spell(item.plantInfo.usosMedicinales[i])),
                       toLowerCase(Spell(useFilter)))

SortOrders == {"date-desc", "date-asc", "name-asc", "name-desc"}

\* The comparator of the sort: negative when a comes first
CompareEntries(a, b, order) ==
    CASE order = "name-asc" -> localeCompare(Spell(EntryName(a)), Spell(EntryName(b)))
      [] order = "name-desc" -> localeCompare(Spell(EntryName(b)), Spell(EntryName(a)))
      [] order = "date-asc" -> a.timestamp - b.timestamp
      [] OTHER -> b.timestamp - a.timestamp

RECURSIVE InsertBy(_, _, _)
InsertBy(e, sorted, order) ==
    IF sorted = <<>> THEN <<e>>
    ELSE IF CompareEntries(Head(sorted), e, order) <= 0
         THEN <<Head(sorted)>> \o InsertBy(e, Tail(sorted), order)
         ELSE <<e>> \o sorted

RECURSIVE SortBy(_, _)
\* list.sort(comparator): stable
SortBy(list, order) ==
    IF list = <<>> THEN <<>>
    ELSE InsertBy(list[Len(list)], SortBy(SubSeq(list, 1, Len(list) - 1), order), order)

\* The useMemo that HerbariumModal is given as its herbarium
filteredAndSortedHerbarium(s) ==
    LET named(item) == NameMatches(item, s.herbariumNameFilter)
        used(item) == UseMatches(item, s.herbariumUseFilter)
    IN  SortBy(SelectSeq(SelectSeq(s.herbarium, named), used), s.herbariumSortOrder)

\* The entries the herbarium dialog lists
Listed ==
    LET shown == filteredAndSortedHerbarium(app)
    IN  {shown[j] : j \in 1..Len(shown)}

\* What the user types into the filters of the dialog
NameFilters == {"", "ROSE"}
UseFilters == {"", "cold"}

\* A control of the herbarium dialog that sets one cell; the report keeps
\* the herbarium and its stored copy as they were before
ViewChange(s, op) ==
    /\ Tick
    /\ app' = s
    /\ last' = [op |-> op, herbarium |-> app.herbarium,
                stored |-> localStorage.plantHerbarium]
    /\ UNCHANGED <<language, userApiKey, envApiKey, localStorage, inflight,
                   chosenMode, fx>>

\* onNameFilterChange={(e) => setHerbariumNameFilter(e.target.value)}
onNameFilterChange(text) ==
    /\ app.isHerbariumOpen
    /\ text # app.herbariumNameFilter
    /\ ViewChange([app EXCEPT !.herbariumNameFilter = text], "onNameFilterChange")

\* onUseFilterChange={(e) => setHerbariumUseFilter(e.target.value)}
onUseFilterChange(text) ==
    /\ app.isHerbariumOpen
    /\ text # app.herbariumUseFilter
    /\ ViewChange([app EXCEPT !.herbariumUseFilter = text], "onUseFilterChange")

\* onSortOrderChange={(e) => setHerbariumSortOrder(e.target.value)}
onSortOrderChange(order) ==
    /\ app.isHerbariumOpen
    /\ order # app.herbariumSortOrder
    /\ ViewChange([app EXCEPT !.herbariumSortOrder = order], "onSortOrderChange")

handleCloseHerbarium ==
    /\ app.isHerbariumOpen
    /\ ViewChange([app EXCEPT !.isHerbariumOpen = FALSE, !.herbariumNameFilter = "",
                              !.herbariumUseFilter = "",
                              !.herbariumSortOrder = "date-desc"],
                  "handleCloseHerbarium")

\* An item of the history dialog or of the herbarium dialog is pressed
handleViewHistoryItem ==
    \E item \in (IF app.isHistoryOpen THEN {app.history[j] : j \in 1..Len(app.history)}
                 ELSE {}) \cup
                (IF app.isHerbariumOpen THEN Listed ELSE {}) :
        Press([app EXCEPT !.currentResult = item, !.isHistoryOpen = FALSE,
                          !.isHerbariumOpen = FALSE, !.view = "main"])

\* onClearHistory={() => saveHistory([])}, once window.confirm is accepted
clearHistory ==
    /\ app.isHistoryOpen
    /\ Len(app.history) > 0
    /\ \E written \in BOOLEAN :
          Finish(saveHistory(Work(app, localStorage), <<>>, written),
                 [op |-> "clearHistory"], inflight)

handleRemoveFromHerbarium ==
    /\ app.isHerbariumOpen
    /\ \E id \in {item.id : item \in Listed}, written \in BOOLEAN :
          Finish(saveHerbarium(Work(app, localStorage), FilterOutId(app.herbarium, id),
                               written),
                 [op |-> "handleRemoveFromHerbarium"], inflight)

\* handleStartCompare(plantEntry)
StartCompare(s, plantEntry) ==
    [s EXCEPT !.comparisonPlants = [plantA |-> plantEntry, plantB |-> Null],
              !.comparisonResult = Null, !.currentResult = Null, !.error = NoText,
              !.view = "comparator", !.isHerbariumOpen = FALSE]

\* The Compare button of ResultCard, and the one of a plant of the herbarium dialog
handleStartCompare ==
    \E plantEntry \in (IF Shows("result") /\ app.currentResult.type = "plant"
                       THEN {app.currentResult} ELSE {}) \cup
                      (IF app.isHerbariumOpen
                       THEN {item \in Listed : item.type = "plant"}
                       ELSE {}) :
        Press(StartCompare(app, plantEntry))

\* The search box of the comparator: shown until plant B is found
handleComparisonSearchStart(query) ==
    /\ Shows("comparator")
    /\ app.comparisonPlants.plantA # Null
    /\ app.comparisonPlants.plantB = Null
    /\ ~app.isLoading
    /\ Begin([app EXCEPT !.isLoading = TRUE, !.error = NoText, !.comparisonResult = Null],
             Started("handleComparisonSearch", query, {}))

\* handleComparisonSearch after the service: plant B or the error, finally
handleComparisonSearchFinally(i, run) ==
    Finish(Work([(IF run.result.kind = "throw"
                  THEN [app EXCEPT !.error =
                            MessageOr(run.result.message,
                                      "Could not find the plant to compare.")]
                  ELSE [app EXCEPT !.comparisonPlants.plantB =
                            PlantEntry(now + 1, run.result.value,
                                       IF run.result.value.imageSrc # Null
                                       THEN run.result.value.imageSrc
                                       ELSE Src("placeholder"))])
                 EXCEPT !.isLoading = FALSE], localStorage),
           Did(inflight[i], run.sent, IF run.result.kind = "throw" THEN "failed" ELSE "done"),
           Without(inflight, i))

handleComparisonSearchComplete(i) ==
    /\ inflight[i].op = "handleComparisonSearch"
    /\ \E reply \in AppTextReplies, mapReply \in AppImageReplies,
          imageReply \in AppImageReplies :
          handleComparisonSearchFinally(
              i, identifyPlantFromText(inflight[i].key, inflight[i].arg, inflight[i].lang,
                                       reply, mapReply, imageReply))

handleGenerateComparisonStart ==
    /\ Shows("comparator")
    /\ app.comparisonPlants.plantA # Null
    /\ app.comparisonPlants.plantB # Null
    /\ ~app.isLoading
    /\ Begin([app EXCEPT !.isLoading = TRUE, !.error = NoText, !.comparisonResult = Null],
             Started("handleGenerateComparison", Null, {"comparisonPlants"}))

handleGenerateComparisonComplete(i) ==
    /\ inflight[i].op = "handleGenerateComparison"
    /\ \E reply \in AppTextReplies :
          LET h == inflight[i]
              run == comparePlants(h.key, h.seen.comparisonPlants.plantA.plantInfo,
                                   h.seen.comparisonPlants.plantB.plantInfo, h.lang, reply)
              s == IF run.result.kind = "throw"
                   THEN [app EXCEPT !.error =
                             MessageOr(run.result.message,
                                       "Could not generate the comparison.")]
                   ELSE [app EXCEPT !.comparisonResult = run.result.value]
          IN  Finish(Work([s EXCEPT !.isLoading = FALSE], localStorage),
                     With(Did(h, run.sent,
                              IF run.result.kind = "throw" THEN "failed" ELSE "done"),
                          "pair", h.seen.comparisonPlants),
                     Without(inflight, i))

\* handleGenerateComparison called while a plant is missing: it returns at
\* once.  (The button is disabled then; the handler has the guard of its own.)
handleGenerateComparisonReturn ==
    /\ Shows("comparator")
    /\ app.comparisonPlants.plantA = Null \/ app.comparisonPlants.plantB = Null
    /\ Finish(Work(app, localStorage),
              With(Did(Started("handleGenerateComparison", Null, {"comparisonPlants"}),
                       <<>>, "returned"),
                   "before", app),
              inflight)

\* The ES and EN buttons of the header
setLanguage(lang) ==
    /\ ~ModalOpen(app)
    /\ language' = lang
    /\ last' = Quiet
    /\ Tick
    /\ UNCHANGED <<app, userApiKey, envApiKey, localStorage, inflight, chosenMode, fx>>

\* The theme button of the header: toggleTheme, then the effect on theme
toggleTheme ==
    /\ ~ModalOpen(app)
    /\ LET theme == IF app.theme = "light" THEN "dark" ELSE "light"
       IN /\ app' = [app EXCEPT !.theme = theme]
          /\ localStorage' = ThemeEffect(localStorage, theme)
    /\ last' = Quiet
    /\ Tick
    /\ UNCHANGED <<language, userApiKey, envApiKey, inflight, chosenMode, fx>>

\* <ApiKeyModal onClose={() => setIsApiKeyModalOpen(false)} ... />
closeApiKeyModal ==
    /\ app.isApiKeyModalOpen
    /\ Press([app EXCEPT !.isApiKeyModalOpen = FALSE])

\* <ApiKeyModal ... onSave={handleReset} />
onSaveApiKeyModal ==
    /\ app.isApiKeyModalOpen
    /\ Reset(app)

\* ApiKeyContext.saveApiKey(key), called by the dialog with the key typed;
\* when setItem throws the state is not reached
saveApiKey(key) ==
    /\ app.isApiKeyModalOpen
    /\ \E written \in BOOLEAN :
          IF written
          THEN /\ localStorage' = [localStorage EXCEPT !.userApiKey = [text |-> key]]
               /\ userApiKey' = key
          ELSE UNCHANGED <<localStorage, userApiKey>>
    /\ last' = Quiet
    /\ Tick
    /\ UNCHANGED <<app, language, envApiKey, inflight, chosenMode, fx>>

\* ApiKeyContext.clearApiKey(), and then the effect on effectiveApiKey
clearApiKey ==
    /\ app.isApiKeyModalOpen
    /\ userApiKey # ""
    /\ localStorage' = [localStorage EXCEPT !.userApiKey = NoItem]
    /\ userApiKey' = ""
    /\ app' = KeyEffect(app, EffectiveApiKey("", envApiKey))
    /\ last' = Quiet
    /\ Tick
    /\ UNCHANGED <<language, envApiKey, inflight, chosenMode, fx>>

\* The page is loaded again: every cell starts over, the mount effects read
\* the storage, and the handlers of the page that was left are gone.
Reload ==
    /\ \E prefersDark \in BOOLEAN :
           app' = Mounted(localStorage, EffectiveApiKey(StoredKey(localStorage), envApiKey),
                          prefersDark)
    /\ userApiKey' = StoredKey(localStorage)
    /\ language' = "es"
    /\ inflight' = <<>>
    /\ chosenMode' = "identify"
    /\ last' = [op |-> "reload", history |-> app.history, herbarium |-> app.herbarium,
                pending |-> Len(inflight)]
    /\ Tick
    /\ UNCHANGED <<envApiKey, localStorage, fx>>

NoFx == [check |-> "none"]

Init ==
    /\ envApiKey \in {"", "env-key"}
    /\ userApiKey = ""
    /\ language = "es"
    /\ localStorage = ThemeEffect(EmptyStorage, InitialTheme(EmptyStorage, FALSE))
    /\ app = Mounted(localStorage, EffectiveApiKey(userApiKey, envApiKey), FALSE)
    /\ inflight = <<>>
    /\ now = 0
    /\ chosenMode = "identify"
    /\ last = Quiet
    /\ fx = NoFx

Next ==
    \/ \E m \in MainModes : setMainMode(m)
    \/ handleImageSelect
    \/ handleFileChange
    \/ changePhoto
    \/ processImageStart
    \/ \E i \in 1..Len(inflight) : processImageComplete(i)
    \/ \E query \in Queries : handleTextSearchStart(query)
    \/ \E i \in 1..Len(inflight) : handleTextSearchComplete(i)
    \/ \E query \in Queries, useGeo \in BOOLEAN : handleRemedySearchStart(query, useGeo)
    \/ \E i \in 1..Len(inflight) : handleRemedySearchComplete(i)
    \/ handleGenerateCareGuideStart
    \/ \E i \in 1..Len(inflight) : handleGenerateCareGuideComplete(i)
    \/ handleToggleHerbariumRemove
    \/ handleToggleHerbariumStart
    \/ \E i \in 1..Len(inflight) : handleToggleHerbariumComplete(i)
    \/ closeNotification
    \/ handleResetPressed
    \/ openHistory
    \/ openHerbarium
    \/ closeHistory
    \/ \E text \in NameFilters : onNameFilterChange(text)
    \/ \E text \in UseFilters : onUseFilterChange(text)
    \/ \E order \in SortOrders : onSortOrderChange(order)
    \/ handleCloseHerbarium
    \/ handleViewHistoryItem
    \/ clearHistory
    \/ handleRemoveFromHerbarium
    \/ handleStartCompare
    \/ \E query \in Queries : handleComparisonSearchStart(query)
    \/ \E i \in 1..Len(inflight) : handleComparisonSearchComplete(i)
    \/ handleGenerateComparisonStart
    \/ \E i \in 1..Len(inflight) : handleGenerateComparisonComplete(i)
    \/ handleGenerateComparisonReturn
    \/ \E lang \in Languages : setLanguage(lang)
    \/ toggleTheme
    \/ closeApiKeyModal
    \/ onSaveApiKeyModal
    \/ \E key \in ApiKeys : saveApiKey(key)
    \/ clearApiKey
    \/ Reload

Spec == Init /\ [][Next]_vars

----------------------------------------------------------------------------
(* The functions of the service taken alone.  The App stands still; fx     *)
(* holds the call that is made and, once it is made, what it answered.     *)

Parked ==
    /\ envApiKey = ""
    /\ userApiKey = ""
    /\ language = "es"
    /\ localStorage = EmptyStorage
    /\ app = InitialApp
    /\ inflight = <<>>
    /\ now = 0
    /\ chosenMode = "identify"
    /\ last = Quiet

\* getJsonFromResponse on every text of at most MaxTextLen tokens
InitJson ==
    /\ Parked
    /\ fx \in {[check |-> "getJsonFromResponse", text |-> text, called |-> FALSE] :
                  text \in Texts(MaxTextLen)}

callGetJsonFromResponse ==
    /\ fx.check = "getJsonFromResponse"
    /\ ~fx.called
    /\ fx' = [check |-> fx.check, text |-> fx.text, called |-> TRUE,
              out |-> getJsonFromResponse(fx.text)]
    /\ UNCHANGED appVars

NextJson == callGetJsonFromResponse

SpecJson == InitJson /\ [][NextJson]_vars

\* What a key of the model's answer may hold; JUndef: the key is absent
ValueSamples ==
    {JUndef, JNull, JStr(""), JStr("Rosa"), JNum(0), JNum(1), JArr(<<>>),
     JArr(<<JStr("a")>>), EmptyObject}
NameSamples == ValueSamples \cup {JStr("Name not available")}
ScientificNameSamples ==
    {JUndef, JStr(""), JStr("Rosa canina"), JStr("Scientific name not available"),
     JArr(<<>>)}
ErrorSamples == {JUndef, JStr(""), JStr("no plant"), JNum(0)}
ListSamples == {JUndef, JStr("x"), JArr(<<JStr("a"), JNum(1), JNull>>)}
SimilarSamples ==
    {JUndef, JStr("x"),
     JArr(<<JObj([nombreComun |-> JStr("Briar"), diferenciaClave |-> JStr("thorns")]),
            JObj([nombreComun |-> JStr("Briar")]), JNull, JStr("x")>>)}
PreparationSamples == {JUndef, JArr(<<EmptyObject, JNull>>)}

\* The answers sanitizePlantInfo is given
PlantAnswers ==
    {JNull, JUndef, JStr("x"), JNum(1), JArr(<<>>)}
    \cup {JObj([nombreComun |-> a, nombreCientifico |-> b, habitat |-> c, error |-> e,
                sinonimos |-> l, plantasSimilares |-> r, preparaciones |-> q]) :
              a \in NameSamples, b \in ScientificNameSamples, c \in ValueSamples,
              e \in ErrorSamples, l \in ListSamples, r \in SimilarSamples,
              q \in PreparationSamples}

InitSanitize ==
    /\ Parked
    /\ fx \in {[check |-> "sanitizePlantInfo", data |-> data, called |-> FALSE] :
                  data \in PlantAnswers}

callSanitizePlantInfo ==
    /\ fx.check = "sanitizePlantInfo"
    /\ ~fx.called
    /\ fx' = [check |-> fx.check, data |-> fx.data, called |-> TRUE,
              out |-> sanitizePlantInfo(fx.data)]
    /\ UNCHANGED appVars

NextSanitize == callSanitizePlantInfo

SpecSanitize == InitSanitize /\ [][NextSanitize]_vars

ServiceFunctions ==
    {"identifyPlantFromImage", "identifyPlantFromText", "diagnosePlantDiseaseFromImage",
     "comparePlants", "findPlantsByUsage", "generateCareGuide"}

\* The functions that read the position, the map reply and the image reply
ReadsLocation == {"identifyPlantFromImage", "findPlantsByUsage"}
ReadsMapReply == {"identifyPlantFromImage", "identifyPlantFromText"}
ReadsImageReply == {"identifyPlantFromText"}

\* Calls that vary the key, the language, the position and the replies
PromptCalls ==
    {c \in [fn : ServiceFunctions, apiKey : {"", "user-key"}, lang : Languages,
            location : Locations \cup {NoLocation}, reply : TextReplies(AppGroundings),
            mapReply : AppImageReplies \cup {[kind |-> "noCandidates"],
                                              [kind |-> "noInlineData"]},
            imageReply : AppImageReplies \cup {[kind |-> "noInlineData"]}] :
        /\ c.fn \notin ReadsLocation => c.location = NoLocation
        /\ c.fn \notin ReadsMapReply => c.mapReply = [kind |-> "image"]
        /\ c.fn \notin ReadsImageReply => c.imageReply = [kind |-> "image"]}

\* Calls that vary the grounding metadata of a good answer
GroundingCalls ==
    {[fn |-> f, apiKey |-> "user-key", lang |-> l, location |-> NoLocation,
      reply |-> [kind |-> "text", parsed |-> Returned(d), grounding |-> g],
      mapReply |-> [kind |-> "image"], imageReply |-> [kind |-> "image"]] :
        f \in {"identifyPlantFromImage", "identifyPlantFromText",
               "diagnosePlantDiseaseFromImage"},
        l \in Languages, d \in {GoodPlantData, GoodDiseaseData}, g \in Groundings}

InitService ==
    /\ Parked
    /\ fx \in {[check |-> "service", call |-> c, called |-> FALSE] :
                  c \in PromptCalls \cup GroundingCalls}

\* The call is made: what it sent and how it ended
Answered(run) ==
    [check |-> fx.check, call |-> fx.call, called |-> TRUE, sent |-> run.sent,
     result |-> run.result]

Calls(fn) == fx.check = "service" /\ ~fx.called /\ fx.call.fn = fn

callIdentifyPlantFromImage ==
    /\ Calls("identifyPlantFromImage")
    /\ fx' = Answered(identifyPlantFromImage(fx.call.apiKey, fx.call.location,
                                             fx.call.lang, fx.call.reply,
                                             fx.call.mapReply))
    /\ UNCHANGED appVars

callIdentifyPlantFromText ==
    /\ Calls("identifyPlantFromText")
    /\ fx' = Answered(identifyPlantFromText(fx.call.apiKey, "mint", fx.call.lang,
                                            fx.call.reply, fx.call.mapReply,
                                            fx.call.imageReply))
    /\ UNCHANGED appVars

callDiagnosePlantDiseaseFromImage ==
    /\ Calls("diagnosePlantDiseaseFromImage")
    /\ fx' = Answered(diagnosePlantDiseaseFromImage(fx.call.apiKey, fx.call.lang,
                                                    fx.call.reply))
    /\ UNCHANGED appVars

callComparePlants ==
    /\ Calls("comparePlants")
    /\ fx' = Answered(comparePlants(fx.call.apiKey, sanitizePlantInfo(GoodPlantData),
                                    sanitizePlantInfo(UnmappedPlantData), fx.call.lang,
                                    fx.call.reply))
    /\ UNCHANGED appVars

callFindPlantsByUsage ==
    /\ Calls("findPlantsByUsage")
    /\ fx' = Answered(findPlantsByUsage(fx.call.apiKey, "mint", fx.call.location,
                                        fx.call.lang, fx.call.reply))
    /\ UNCHANGED appVars

callGenerateCareGuide ==
    /\ Calls("generateCareGuide")
    /\ fx' = Answered(generateCareGuide(fx.call.apiKey, sanitizePlantInfo(GoodPlantData),
                                        fx.call.lang, fx.call.reply))
    /\ UNCHANGED appVars

NextService ==
    \/ callIdentifyPlantFromImage
    \/ callIdentifyPlantFromText
    \/ callDiagnosePlantDiseaseFromImage
    \/ callComparePlants
    \/ callFindPlantsByUsage
    \/ callGenerateCareGuide

SpecService == InitService /\ [][NextService]_vars

----------------------------------------------------------------------------
(* The herbarium dialog over a herbarium that earlier sessions stored.     *)

MaxStored == 3       \* the entries an earlier session left in the storage

\* A plant whose profile lists medicinal uses
RemedyPlantData ==
    JObj([nombreComun |-> JStr("Sage"), nombreCientifico |-> JStr("Salvia officinalis"),
          usosMedicinales |-> JArr(<<JStr("Sore throat")>>)])
ColdPlantData ==
    JObj([nombreComun |-> JStr("Dog rose"), nombreCientifico |-> JStr("Rosa canina"),
          usosMedicinales |-> JArr(<<JStr("Colds")>>)])

\* An entry as an earlier session saved it at the time `clock`
StoredPlant(clock, data) ==
    StringifyEntry(Thumbnailed(PlantEntry(clock,
                                          [plantInfo |-> sanitizePlantInfo(data),
                                           sources |-> <<>>,
                                           mapaDistribucionSrc |-> Null],
                                          Src("photo"))))
StoredDisease(clock, data) ==
    StringifyEntry(Thumbnailed(DiseaseEntry(clock,
                                            [diseaseInfo |-> sanitizeDiseaseInfo(data),
                                             sources |-> <<>>],
                                            Src("photo"))))

StoredEntries ==
    {StoredPlant(-9, ColdPlantData), StoredPlant(-8, RemedyPlantData),
     StoredDisease(-7, GoodDiseaseData)}

RECURSIVE ListsOf(_, _)
\* The lists of at most n different elements of S
ListsOf(S, n) ==
    IF n = 0 THEN {<<>>}
    ELSE ListsOf(S, n - 1) \cup
         {Append(l, e) : l \in {u \in ListsOf(S, n - 1) : Len(u) = n - 1}, e \in S}

\* The herbarium keeps the order in which the entries were added to it
StoredHerbaria ==
    {l \in ListsOf(StoredEntries, MaxStored) :
        \A i, j \in 1..Len(l) : i # j => l[i] # l[j]}

InitHerbarium ==
    /\ envApiKey = "env-key"
    /\ userApiKey = ""
    /\ language = "es"
    /\ localStorage \in {[ThemeEffect(EmptyStorage, "light")
                            EXCEPT !.plantHerbarium = JSONstringify(l)] : l \in StoredHerbaria}
    /\ app = Mounted(localStorage, EffectiveApiKey(userApiKey, envApiKey), FALSE)
    /\ inflight = <<>>
    /\ now = 0
    /\ chosenMode = "identify"
    /\ last = Quiet
    /\ fx = NoFx

NextHerbarium ==
    \/ openHerbarium
    \/ \E text \in NameFilters : onNameFilterChange(text)
    \/ \E text \in UseFilters : onUseFilterChange(text)
    \/ \E order \in SortOrders : onSortOrderChange(order)
    \/ handleCloseHerbarium
    \/ handleViewHistoryItem
    \/ handleRemoveFromHerbarium
    \/ handleStartCompare
    \/ handleResetPressed

SpecHerbarium == InitHerbarium /\ [][NextHerbarium]_vars

----------------------------------------------------------------------------
(* The comparator, opened from a herbarium that earlier sessions stored.   *)

ReturnLead == 2      \* how long before the time 0 the returning user's page loads

InitComparator ==
    /\ envApiKey = "env-key"
    /\ userApiKey = ""
    /\ language = "es"
    /\ localStorage = [ThemeEffect(EmptyStorage, "light")
                       EXCEPT !.plantHerbarium =
                           JSONstringify(<<StoredPlant(-8, RemedyPlantData),
                                           StoredPlant(-9, ColdPlantData)>>)]
    /\ app = Mounted(localStorage, EffectiveApiKey(userApiKey, envApiKey), FALSE)
    /\ inflight = <<>>
    /\ now = 0 - ReturnLead
    /\ chosenMode = "identify"
    /\ last = Quiet
    /\ fx = NoFx

NextComparator ==
    \/ openHerbarium
    \/ handleCloseHerbarium
    \/ handleStartCompare
    \/ \E query \in Queries : handleComparisonSearchStart(query)
    \/ \E i \in 1..Len(inflight) : handleComparisonSearchComplete(i)
    \/ handleGenerateComparisonStart
    \/ \E i \in 1..Len(inflight) : handleGenerateComparisonComplete(i)
    \/ handleGenerateComparisonReturn
    \/ handleResetPressed

SpecComparator == InitComparator /\ [][NextComparator]_vars

----------------------------------------------------------------------------
(* A user whose history is full, or has room for one more entry.           *)

\* The events the session with the long history is followed for
HistorySteps == 4

\* The history an earlier session left: n queries, the i-th newest made at
\* the time 0 - i
StoredHistory(n) ==
    [i \in 1..n |-> StoredPlant(0 - i, IF i % 2 = 0 THEN RemedyPlantData ELSE ColdPlantData)]

InitHistory ==
    /\ envApiKey = "env-key"
    /\ userApiKey = ""
    /\ language = "es"
    /\ localStorage \in {[ThemeEffect(EmptyStorage, "light")
                            EXCEPT !.plantHistory = JSONstringify(StoredHistory(n))] :
                          n \in {HistoryLimit - 1, HistoryLimit}}
    /\ app = Mounted(localStorage, EffectiveApiKey(userApiKey, envApiKey), FALSE)
    /\ inflight = <<>>
    /\ now = MaxClock - HistorySteps
    /\ chosenMode = "identify"
    /\ last = Quiet
    /\ fx = NoFx

NextHistory ==
    \/ handleImageSelect
    \/ processImageStart
    \/ \E i \in 1..Len(inflight) : processImageComplete(i)
    \/ \E query \in Queries : handleTextSearchStart(query)
    \/ \E i \in 1..Len(inflight) : handleTextSearchComplete(i)
    \/ handleGenerateCareGuideStart
    \/ \E i \in 1..Len(inflight) : handleGenerateCareGuideComplete(i)
    \/ handleResetPressed
    \/ openHistory
    \/ closeHistory
    \/ handleViewHistoryItem
    \/ clearHistory
    \/ Reload

SpecHistory == InitHistory /\ [][NextHistory]_vars

----------------------------------------------------------------------------
(* The returning user who leaves the comparator while it is searching and  *)
(* goes on in the main view.                                               *)

NextLoading ==
    \/ openHerbarium
    \/ handleStartCompare
    \/ \E query \in Queries : handleComparisonSearchStart(query)
    \/ \E i \in 1..Len(inflight) : handleComparisonSearchComplete(i)
    \/ handleResetPressed
    \/ \E query \in Queries : handleTextSearchStart(query)
    \/ \E i \in 1..Len(inflight) : handleTextSearchComplete(i)

SpecLoading == InitComparator /\ [][NextLoading]_vars

----------------------------------------------------------------------------
(* The properties. *)

\* The handler that ended in this step took the service path
Queried(op) == last.op = op /\ last.outcome # "noKey"

(* C1: when the user switches the main mode to Diagnose, chooses an image  *)
(* file and presses Analyze, the request issued is the one of              *)
(* diagnosePlantDiseaseFromImage, identifyPlantFromImage is not called for *)
(* that image, and on success the current result is of type 'disease'.     *)
C1_DiagnoseReachable ==
    (Queried("processImage") /\ chosenMode = "diagnose") =>
        /\ \A i \in 1..Len(last.sent) :
               last.sent[i].prompt.template # "generateJsonPrompt"
        /\ last.sent # <<>> =>
               last.sent[1].prompt.template = "generateDiseaseJsonPrompt"
        /\ last.outcome = "done" => app.currentResult.type = "disease"

\* An image chosen under the Diagnose tab was analysed, and the model answered
C1_DiagnoseTabAnalysed ==
    /\ Queried("processImage")
    /\ chosenMode = "diagnose"
    /\ last.outcome = "done"

(* C2: whenever an identification (from image or text) or a diagnosis      *)
(* started from the main view completes successfully, the new entry is the *)
(* current result, the history contains it, and the 'plantHistory' value   *)
(* of the storage is the in-memory history.                                *)
C2_QuerySaved ==
    (last.op \in {"processImage", "handleTextSearch"} /\ last.outcome = "done") =>
        /\ app.currentResult # Null
        /\ app.currentResult.timestamp = now
        /\ \E i \in 1..Len(app.history) : app.history[i] = app.currentResult
        /\ localStorage.plantHistory = JSONstringify(app.history)
        /\ SameList(JSONparse(localStorage.plantHistory), app.history)

\* A second query completed and was stored above the first
C2_SecondQuerySaved ==
    /\ last.op \in {"processImage", "handleTextSearch"}
    /\ last.outcome = "done"
    /\ Len(app.history) = 2

(* C3: after any sequence of completed operations, reloading the           *)
(* application yields a history and a herbarium equal to the ones held in  *)
(* memory just before the reload.                                          *)
C3_ReloadRoundTrip ==
    (last.op = "reload" /\ last.pending = 0) =>
        /\ SameList(app.history, last.history)
        /\ SameList(app.herbarium, last.herbarium)

\* A reload, with no handler pending, of a page that held a history
C3_ReloadedWithHistory ==
    /\ last.op = "reload"
    /\ last.pending = 0
    /\ Len(last.history) > 0
    /\ Len(app.history) > 0

(* C4: a completed handleToggleHerbarium toggles the membership of the     *)
(* current result by id: with no entry of that id it adds exactly one at   *)
(* the head and leaves the others as they were; with one, it removes every *)
(* entry of that id and leaves the others (so that two consecutive         *)
(* completed toggles restore the ids).  It is stated of a toggle that      *)
(* finds a herbarium the storage holds, and that stores its own.           *)
C4_ToggleById ==
    (/\ last.op = "handleToggleHerbarium"
     /\ last.outcome \in {"added", "removed"}
     /\ last.persisted) =>
        IF last.id \in Ids(last.before)
        THEN app.herbarium = FilterOutId(last.before, last.id)
        ELSE /\ Len(app.herbarium) = Len(last.before) + 1
             /\ app.herbarium[1].id = last.id
             /\ Tail(app.herbarium) = last.before

\* A toggle completed that found the id absent and added the entry
C4_ToggleAdded ==
    /\ last.op = "handleToggleHerbarium"
    /\ last.outcome = "added"
    /\ last.id \notin Ids(last.before)

\* The strategies of getJsonFromResponse, each taken alone
C5_Whole(text) == JSONparseText(text)
C5_Block(text) == JSONparseText(FenceMatch(text).group)
C5_BracesApply(text) ==
    IndexOf(text, "{") # 0 /\ LastIndexOf(text, "}") > IndexOf(text, "{")
C5_Braces(text) == JSONparseText(SubSeq(text, IndexOf(text, "{"), LastIndexOf(text, "}")))
C5_BracketsApply(text) ==
    IndexOf(text, "[") # 0 /\ LastIndexOf(text, "]") > IndexOf(text, "[")
C5_Brackets(text) ==
    JSONparseText(SubSeq(text, IndexOf(text, "["), LastIndexOf(text, "]")))

\* out is what the strategies give in their order, when blockTried tells
\* whether strategy (2) is the one that decides
C5_Ordered(text, out, blockTried) ==
    IF C5_Whole(text).ok THEN out = Returned(C5_Whole(text).value)
    ELSE IF blockTried
    THEN IF C5_Block(text).ok THEN out = Returned(C5_Block(text).value)
         ELSE out = Thrown(MalformedFenceMessage)
    ELSE IF C5_BracesApply(text) /\ C5_Braces(text).ok
    THEN out = Returned(C5_Braces(text).value)
    ELSE IF C5_BracketsApply(text)
    THEN IF C5_Brackets(text).ok THEN out = Returned(C5_Brackets(text).value)
         ELSE out = Thrown(NotArrayMessage)
    ELSE out = Thrown(NotJsonMessage)

(* C5, as amended: getJsonFromResponse returns the first success of (1)    *)
(* the whole text, (2) the content of the first ```json block, (3) first   *)
(* '{' to last '}', (4) first '[' to last ']'.  A fenced block whose       *)
(* content is not empty and is malformed aborts with the 'malformed JSON   *)
(* inside a code block' error; a fenced block with empty content is passed *)
(* over; a failed (3) falls through to (4); a failed (4) raises 'not a     *)
(* valid JSON array'; when no strategy applies 'not valid JSON' is raised. *)
C5_StrategyOrder ==
    (fx.check = "getJsonFromResponse" /\ fx.called) =>
        C5_Ordered(fx.text, fx.out,
                   FenceMatch(fx.text).matched /\ FenceMatch(fx.text).group # <<>>)

\* A malformed block aborted although '{' to '}' would have parsed
C5_MalformedBlockAborted ==
    /\ fx.check = "getJsonFromResponse"
    /\ fx.called
    /\ fx.out = Thrown(MalformedFenceMessage)
    /\ C5_BracesApply(fx.text)
    /\ C5_Braces(fx.text).ok

(* C5, as stated: the same order, where every fenced block that is present *)
(* and malformed aborts without (3) or (4) being tried.                    *)
C5_PresentBlockAborts ==
    (fx.check = "getJsonFromResponse" /\ fx.called) =>
        C5_Ordered(fx.text, fx.out, FenceMatch(fx.text).matched)

\* The records of a list all have their string fields filled
C6_Populated(list, keys) ==
    \A i \in 1..Len(list) : \A k \in keys : list[i][k] # ""

(* C6: sanitizePlantInfo returns null or a PlantInfo with all 15 keys,     *)
(* every string field a non-empty string, every record of a list fully     *)
(* populated; it returns null exactly when the input is not an object,     *)
(* carries a truthy 'error', or has neither nombreComun nor                *)
(* nombreCientifico.                                                       *)
C6_SanitizeTotal ==
    (fx.check = "sanitizePlantInfo" /\ fx.called) =>
        /\ (fx.out = Null) <=>
               \/ fx.data.t # "object"
               \/ Truthy(Field(fx.data, "error"))
               \/ /\ ~Truthy(Field(fx.data, "nombreComun"))
                  /\ ~Truthy(Field(fx.data, "nombreCientifico"))
        /\ fx.out # Null =>
               /\ DOMAIN fx.out = PlantInfoKeys
               /\ Cardinality(PlantInfoKeys) = 15
               /\ \A k \in StringKeys : fx.out[k] # ""
               /\ C6_Populated(fx.out.plantasSimilares,
                               {"nombreComun", "nombreCientifico", "diferenciaClave"})
               /\ C6_Populated(fx.out.preparaciones,
                               {"nombre", "instrucciones", "dosis", "efectosSecundarios",
                                "contextoHistorico"})

\* A PlantInfo was returned for an answer that gave a name
C6_Sanitized ==
    /\ fx.check = "sanitizePlantInfo"
    /\ fx.called
    /\ fx.out # Null
    /\ Len(fx.out.plantasSimilares) = 1

\* Every exported function of the service, given the empty key, throws the
\* no-key error and sends nothing
C7_ServiceRefuses ==
    \A lang \in Languages, reply \in AppTextReplies, other \in AppImageReplies :
        \A run \in {identifyPlantFromImage("", NoLocation, lang, reply, other),
                    identifyPlantFromText("", "mint", lang, reply, other, other),
                    diagnosePlantDiseaseFromImage("", lang, reply),
                    comparePlants("", sanitizePlantInfo(GoodPlantData),
                                  sanitizePlantInfo(UnmappedPlantData), lang, reply),
                    findPlantsByUsage("", "mint", NoLocation, lang, reply),
                    generateCareGuide("", sanitizePlantInfo(GoodPlantData), lang, reply)} :
            run.sent = <<>> /\ run.result = Thrown(NoKeyMessage)

(* C7: no request is sent to the model with an empty API key: the exported *)
(* functions of the service fail with the no-key error before any          *)
(* generateContent call, and processImage, handleTextSearch and            *)
(* handleRemedySearch, when there is no effective key, set the error, open *)
(* the API-key dialog and clear isLoading without calling the service.     *)
C7_NoRequestWithoutKey ==
    /\ C7_ServiceRefuses
    /\ "sent" \in DOMAIN last =>
           \A i \in 1..Len(last.sent) : last.sent[i].apiKey # ""
    /\ ("sent" \in DOMAIN last /\ last.key = ""
        /\ last.op \in {"processImage", "handleTextSearch", "handleRemedySearch"}) =>
           /\ last.outcome = "noKey"
           /\ last.sent = <<>>
           /\ app.error = t("apiKeyError")
           /\ app.isApiKeyModalOpen
           /\ ~app.isLoading

\* A search was started without an effective key
C7_SearchWithoutKey ==
    /\ last.op = "handleTextSearch"
    /\ last.key = ""
    /\ last.outcome = "noKey"

\* The prompt the function builds for the language, from the generator and
\* the context sentence of that language
C8_Prompt(call) ==
    CASE call.fn = "identifyPlantFromImage" ->
             IF call.lang = "es"
             THEN generateJsonPrompt_es(ImageContext(call.location, "es"))
             ELSE generateJsonPrompt_en(ImageContext(call.location, "en"))
      [] call.fn = "identifyPlantFromText" ->
             IF call.lang = "es" THEN generateJsonPrompt_es(TextContext("mint", "es"))
             ELSE generateJsonPrompt_en(TextContext("mint", "en"))
      [] call.fn = "diagnosePlantDiseaseFromImage" ->
             IF call.lang = "es" THEN generateDiseaseJsonPrompt_es(DiseaseContext("es"))
             ELSE generateDiseaseJsonPrompt_en(DiseaseContext("en"))
      [] call.fn = "comparePlants" ->
             IF call.lang = "es"
             THEN generateCompareJsonPrompt_es(sanitizePlantInfo(GoodPlantData),
                                               sanitizePlantInfo(UnmappedPlantData))
             ELSE generateCompareJsonPrompt_en(sanitizePlantInfo(GoodPlantData),
                                               sanitizePlantInfo(UnmappedPlantData))
      [] call.fn = "findPlantsByUsage" ->
             IF call.lang = "es" THEN generateFindPlantsPrompt_es("mint", call.location)
             ELSE generateFindPlantsPrompt_en("mint", call.location)
      [] OTHER ->
             IF call.lang = "es"
             THEN generateCareGuidePrompt_es(sanitizePlantInfo(GoodPlantData))
             ELSE generateCareGuidePrompt_en(sanitizePlantInfo(GoodPlantData))

(* C8: for each of the six functions of the service and each language L,   *)
(* the text prompt sent is the one the L variant of the prompt generator   *)
(* builds, on the L variant of the context sentence; no call in one        *)
(* language sends a prompt in the other.                                   *)
C8_PromptFollowsLanguage ==
    (fx.check = "service" /\ fx.called /\ fx.sent # <<>>) =>
        /\ fx.sent[1].prompt = C8_Prompt(fx.call)
        /\ \A i \in 1..Len(fx.sent) : fx.sent[i].prompt.tongue = fx.call.lang
        /\ "context" \in DOMAIN fx.sent[1].prompt =>
               fx.sent[1].prompt.context.tongue = fx.call.lang

\* An English search by name sent its three prompts
C8_EnglishTextSearch ==
    /\ fx.check = "service"
    /\ fx.called
    /\ fx.call.fn = "identifyPlantFromText"
    /\ fx.call.lang = "en"
    /\ Len(fx.sent) = 3

(* C9: handleRemedySearch asks for the device position only when the       *)
(* geolocation toggle is on; the prompt of findPlantsByUsage carries the   *)
(* 'prioritize plants native to the region around latitude/longitude'      *)
(* sentence if and only if a non-null location was passed; with the toggle *)
(* off, or the position not obtained, the search still runs, with a prompt *)
(* that carries no coordinates.                                            *)
C9_LocationOnRequest ==
    Queried("handleRemedySearch") =>
        /\ Len(last.sent) = 1
        /\ last.askedPosition => last.arg.useGeo
        /\ ~last.arg.useGeo => last.location = NoLocation
        /\ (last.sent[1].prompt.prioritize # <<>>) <=> (last.location # NoLocation)
        /\ last.location # NoLocation =>
               last.sent[1].prompt.prioritize =
                   <<last.location.latitude, last.location.longitude>>

\* A remedy search with the toggle on ran although no position was obtained
C9_SearchWithoutPosition ==
    /\ Queried("handleRemedySearch")
    /\ last.arg.useGeo
    /\ last.location = NoLocation
    /\ last.outcome = "done"

\* The chunk has a web URI
C10_HasUri(chunk) == chunk.web # NoWeb /\ chunk.web.uri \notin {NoString, ""}

\* The sources are the chunks with a URI, in their order, each with its
\* title or 'Untitled Source'
C10_SourcesOf(sources, chunks) ==
    LET kept == SelectSeq(chunks, C10_HasUri) IN
    /\ Len(sources) = Len(kept)
    /\ \A i \in 1..Len(kept) :
           /\ sources[i].uri = kept[i].web.uri
           /\ sources[i].title = IF kept[i].web.title \in {NoString, ""}
                                 THEN "Untitled Source" ELSE kept[i].web.title

\* The call returned a result that carries grounding sources
C10_Grounded ==
    /\ fx.check = "service"
    /\ fx.called
    /\ fx.call.fn \in {"identifyPlantFromImage", "identifyPlantFromText",
                       "diagnosePlantDiseaseFromImage"}
    /\ fx.result.kind = "return"

(* C10: every grounding source returned by getPlantInfo and                *)
(* diagnosePlantDiseaseFromImage has a non-empty URI and a non-empty       *)
(* title: chunks without a web URI are dropped, a missing title becomes    *)
(* 'Untitled Source', the order of the remaining chunks is kept, and       *)
(* without grounding metadata the list is empty.                           *)
C10_GroundingSources ==
    C10_Grounded =>
        /\ \A i \in 1..Len(fx.result.value.sources) :
               /\ fx.result.value.sources[i].uri \notin {NoString, ""}
               /\ fx.result.value.sources[i].title \notin {NoString, ""}
        /\ IF "missing" \in DOMAIN fx.call.reply.grounding
           THEN fx.result.value.sources = <<>>
           ELSE C10_SourcesOf(fx.result.value.sources, fx.call.reply.grounding.chunks)

\* Of two chunks one was dropped and the other got the default title
C10_DroppedAndUntitled ==
    /\ C10_Grounded
    /\ "chunks" \in DOMAIN fx.call.reply.grounding
    /\ Len(fx.call.reply.grounding.chunks) = 2
    /\ Len(fx.result.value.sources) = 1
    /\ fx.result.value.sources[1].title = "Untitled Source"

\* The stored entry passes the two filters of the dialog
C11_Passes(item) ==
    /\ includes(toLowerCase(Spell(EntryName(item))),
                toLowerCase(Spell(app.herbariumNameFilter)))
    /\ app.herbariumUseFilter # "" =>
           /\ item.type = "plant"
           /\ \E i \in 1..Len(item.plantInfo.usosMedicinales) :
                  includes(toLowerCase(Spell(item.plantInfo.usosMedicinales[i])),
                           toLowerCase(Spell(app.herbariumUseFilter)))

\* The entry a may stand before the entry b under the sort order
C11_InOrder(a, b) ==
    CASE app.herbariumSortOrder = "date-desc" -> a.timestamp >= b.timestamp
      [] app.herbariumSortOrder = "date-asc" -> a.timestamp <= b.timestamp
      [] app.herbariumSortOrder = "name-asc" ->
             localeCompare(Spell(EntryName(a)), Spell(EntryName(b))) <= 0
      [] app.herbariumSortOrder = "name-desc" ->
             localeCompare(Spell(EntryName(a)), Spell(EntryName(b))) >= 0

\* The list the dialog shows is the stored entries that pass, in order
C11_PureView(shown) ==
    /\ \A j \in 1..Len(shown) :
           \E i \in 1..Len(app.herbarium) : app.herbarium[i] = shown[j]
    /\ \A i \in 1..Len(app.herbarium) :
           C11_Passes(app.herbarium[i]) <=>
               \E j \in 1..Len(shown) : shown[j] = app.herbarium[i]
    /\ Len(shown) = Cardinality({i \in 1..Len(app.herbarium) :
                                     C11_Passes(app.herbarium[i])})
    /\ \A j \in 1..(Len(shown) - 1) : C11_InOrder(shown[j], shown[j + 1])

\* A filter or the sort order was changed: the herbarium and its stored copy
\* are what they were
C11_Frame ==
    last.op \in {"onNameFilterChange", "onUseFilterChange", "onSortOrderChange",
                 "handleCloseHerbarium"} =>
        /\ app.herbarium = last.herbarium
        /\ localStorage.plantHerbarium = last.stored

C11_Reset ==
    /\ app.herbariumNameFilter = ""
    /\ app.herbariumUseFilter = ""
    /\ app.herbariumSortOrder = "date-desc"

C12_ComparisonOfPair ==
    /\ (last.op = "handleGenerateComparison" /\ last.outcome # "returned") =>
           /\ last.pair.plantA # Null
           /\ last.pair.plantB # Null
           /\ "plantInfo" \in DOMAIN last.pair.plantA
           /\ "plantInfo" \in DOMAIN last.pair.plantB
    /\ (last.op = "handleGenerateComparison" /\ last.outcome = "returned") =>
           /\ last.sent = <<>>
           /\ app = last.before
    /\ (/\ last.op = "handleGenerateComparison"
        /\ last.outcome = "done"
        /\ app.view = "comparator"
        /\ app.comparisonResult # Null) =>
           app.comparisonPlants = last.pair

\* A comparison of the two selected plants came back and is displayed
C12_ComparisonShown ==
    /\ last.op = "handleGenerateComparison"
    /\ last.outcome = "done"
    /\ app.view = "comparator"
    /\ app.comparisonResult # Null
    /\ app.comparisonPlants = last.pair

(* C13: when generateCareGuide succeeds, the current result carries the    *)
(* care guide, every history entry and every herbarium entry with its id   *)
(* is replaced by the updated result, the entries with other ids are       *)
(* unchanged, and both lists are written to the storage; when it fails,    *)
(* the current result, the history and the herbarium are unchanged and the *)
(* error is set.  Either way isGeneratingCareGuide ends false.             *)
C13_CareGuideEverywhere ==
    last.op = "handleGenerateCareGuide" =>
        /\ ~app.isGeneratingCareGuide
        /\ last.outcome = "done" =>
               /\ app.currentResult # Null
               /\ Get(app.currentResult, "careGuide") # Undefined
               /\ app.history = ReplaceById(last.before.history, app.currentResult)
               /\ app.herbarium = ReplaceById(last.before.herbarium, app.currentResult)
               /\ localStorage.plantHistory = JSONstringify(app.history)
               /\ localStorage.plantHerbarium = JSONstringify(app.herbarium)
        /\ last.outcome = "failed" =>
               /\ app.currentResult = last.before.currentResult
               /\ app.history = last.before.history
               /\ app.herbarium = last.before.herbarium
               /\ app.error # NoText

\* A care guide came back for a plant that the history and the herbarium hold
C13_GuideStoredTwice ==
    /\ last.op = "handleGenerateCareGuide"
    /\ last.outcome = "done"
    /\ \E i \in 1..Len(app.history) : app.history[i] = app.currentResult
    /\ \E i \in 1..Len(app.herbarium) : app.herbarium[i] = app.currentResult

\* The failures of the model call that tell of an exhausted quota
C14_QuotaFailures ==
    {e \in RawFailures :
        e.isError /\ (Includes429(e.message) \/ IncludesExhausted(e.message))}

(* C14: when a query fails because the quota is exhausted (the model call  *)
(* fails with a message containing '429' or 'resource has been             *)
(* exhausted'), the error shown is the quota message and the API-key       *)
(* dialog is opened by processImage, handleTextSearch and                  *)
(* handleRemedySearch.                                                     *)
C14_QuotaOpensKeyDialog ==
    /\ \A e \in C14_QuotaFailures : handleApiError(e) = QuotaMessage
    /\ (/\ last.op \in {"processImage", "handleTextSearch", "handleRemedySearch"}
        /\ last.outcome = "failed"
        /\ last.sent # <<>>
        /\ app.error = QuotaMessage) =>
           app.isApiKeyModalOpen

\* A query was sent and failed with the quota message
C14_QuotaFailure ==
    /\ last.op \in {"processImage", "handleTextSearch", "handleRemedySearch"}
    /\ last.outcome = "failed"
    /\ last.sent # <<>>
    /\ app.error = QuotaMessage

----------------------------------------------------------------------------
\* The cells handleReset sets, and the rest of the page
C15_ResetCells ==
    {"image", "currentResult", "error", "isLoading", "isTextSearching", "view",
     "comparisonPlants", "comparisonResult", "suggestedPlants", "remedyQuery",
     "mainMode"}

\* C15: when handleReset has run, the image, the current result, the error,
\* the suggestions, the comparison plants and the comparison result are null,
\* isLoading and isTextSearching are false, the remedy query is empty, the
\* view is 'main' and the main mode is 'identify'; the history, the herbarium,
\* the stored copies, the theme, the language and the API key are what they
\* were before.
C15_ResetFrame ==
    last.op = "handleReset" =>
        /\ \A k \in C15_ResetCells : app[k] = InitialApp[k]
        /\ app.history = last.before.history
        /\ app.herbarium = last.before.herbarium
        /\ app.theme = last.before.theme
        /\ localStorage = last.stored
        /\ language = last.lang
        /\ userApiKey = last.userKey

\* handleReset has run on a page in dark theme that showed a result and held
\* a history
C15_ResetOfResult ==
    /\ last.op = "handleReset"
    /\ last.before.currentResult # Null
    /\ last.before.theme = "dark"
    /\ last.before.history # <<>>
    /\ HasItem(localStorage.plantHistory)

----------------------------------------------------------------------------
\* The handlers that raise the loading flag, and the ways they end once the
\* model call has settled
C16_LoadingOps ==
    {"processImage", "handleTextSearch", "handleRemedySearch", "handleComparisonSearch",
     "handleGenerateComparison"}
C16_Settled == last.op \in C16_LoadingOps /\ last.outcome \in {"done", "failed", "notStored"}

\* What the page displays, as renderMainView and renderComparatorView decide
C16_ResultShown == app.view = "main" /\ Screen(app) = "result"
C16_SuggestionsShown == app.view = "main" /\ Screen(app) = "suggestions"
C16_ComparisonShown == app.view = "comparator" /\ app.comparisonResult # Null
C16_ErrorShown ==
    \/ app.view = "main" /\ Screen(app) = "error"
    \/ app.view = "comparator" /\ app.error # NoText
C16_Shown ==
    {k \in {"result", "suggestions", "comparison", "error"} :
        \/ k = "result" /\ C16_ResultShown
        \/ k = "suggestions" /\ C16_SuggestionsShown
        \/ k = "comparison" /\ C16_ComparisonShown
        \/ k = "error" /\ C16_ErrorShown}

----------------------------------------------------------------------------
\* The entries are in non-increasing timestamp order
C17_Ordered(list) == \A i \in 1..(Len(list) - 1) : list[i].timestamp >= list[i + 1].timestamp

C17_Bounded == Len(app.history) <= HistoryLimit /\ C17_Ordered(app.history)

\* A query ends successfully on a full history: the new entry is the first,
\* the others move down by one and the oldest is gone
C17_AddToFull ==
    (/\ last'.op \in {"processImage", "handleTextSearch"}
     /\ last'.outcome = "done"
     /\ Len(app.history) = HistoryLimit)
    => /\ Len(app.history') = HistoryLimit
       /\ app.history'[1] = app.currentResult'
       /\ app.history'[1].timestamp = now'
       /\ \A i \in 2..HistoryLimit : app.history'[i].id = app.history[i - 1].id

----------------------------------------------------------------------------
\* The saved data: the two lists and the storage
C18_Saved(s, storage) == <<s.history, s.herbarium, storage>>

\* A query handler passes its first await: the current result is null and
\* the saved data is what it was
C18_QueryStarts ==
    (/\ Len(inflight') = Len(inflight) + 1
     /\ inflight'[Len(inflight')].op \in
            {"processImage", "handleTextSearch", "handleRemedySearch"})
    => /\ app'.currentResult = Null
       /\ C18_Saved(app', localStorage') = C18_Saved(app, localStorage)

\* A query handler ends because its service function failed: the error is
\* not empty, the current result and the saved data are what they were
C18_QueryFails ==
    (/\ last'.op \in {"processImage", "handleTextSearch", "handleRemedySearch",
                      "handleComparisonSearch"}
     /\ last'.outcome = "failed")
    => /\ app'.error # NoText
       /\ app'.currentResult = app.currentResult
       /\ C18_Saved(app', localStorage') = C18_Saved(app, localStorage)

----------------------------------------------------------------------------
\* A service function was called with a key and the model answered a text
\* that getJsonFromResponse could parse
C19_Parsed ==
    /\ fx.check = "service"
    /\ fx.called
    /\ fx.call.apiKey # ""
    /\ fx.call.reply.kind = "text"
    /\ fx.call.reply.parsed.kind = "return"

\* The 'could not extract / response is empty' message of the function
C19_EmptyMessage(fn) ==
    CASE fn = "comparePlants" -> CompareEmptyMessage
      [] fn = "findPlantsByUsage" -> RemedyEmptyMessage
      [] fn = "generateCareGuide" -> GuideEmptyMessage
      [] OTHER -> NoDataMessage

\* The sanitizer of the function accepts the data
C19_Accepted(fn, data) ==
    CASE fn = "comparePlants" -> sanitizeComparisonInfo(data) # Null
      [] fn = "findPlantsByUsage" -> sanitizeSuggestedPlants(data) # Null
      [] fn = "generateCareGuide" -> sanitizeCareGuide(data) # Null
      [] fn = "diagnosePlantDiseaseFromImage" -> sanitizeDiseaseInfo(data) # Null
      [] OTHER -> sanitizePlantInfo(data) # Null

\* C19: in every service function, a parsed response with a truthy 'error'
\* key makes the call fail with that error text as its message; a falsy
\* parsed response makes it fail with the function's 'could not extract /
\* response is empty' message; a result is returned only when the function's
\* sanitizer accepted the data.
C19_ErrorVerbatim ==
    C19_Parsed =>
        LET data == fx.call.reply.parsed.value IN
        /\ Truthy(Field(data, "error")) =>
               fx.result = Thrown(StringOf(Field(data, "error")))
        /\ ~Truthy(data) => fx.result = Thrown(C19_EmptyMessage(fx.call.fn))
        /\ fx.result.kind = "return" => C19_Accepted(fx.call.fn, data)

\* The model reported the error of its prompt and the call failed with it
C19_ModelErrorSurfaced ==
    /\ C19_Parsed
    /\ fx.call.reply.parsed.value = ErrorData
    /\ fx.result = Thrown(ModelErrorText)

----------------------------------------------------------------------------
\* identifyPlantFromImage or identifyPlantFromText was called with a key and
\* getPlantInfo returned the plant
C20_PlantFound ==
    /\ fx.check = "service"
    /\ fx.called
    /\ fx.call.fn \in {"identifyPlantFromImage", "identifyPlantFromText"}
    /\ fx.call.apiKey # ""
    /\ fx.call.reply.kind = "text"
    /\ fx.call.reply.parsed.kind = "return"
    /\ Truthy(fx.call.reply.parsed.value)
    /\ ~Truthy(Field(fx.call.reply.parsed.value, "error"))
    /\ sanitizePlantInfo(fx.call.reply.parsed.value) # Null

\* The requests for a distribution map among those the call sent
C20_MapRequests ==
    {i \in 1..Len(fx.sent) : fx.sent[i].prompt.template = "distributionMap"}

\* C20: once the plant is found the call returns it whatever becomes of the
\* map: with mapaDistribucionSrc null when the map request fails or answers
\* no image part, and without any map request when the distribution is empty
\* or contains 'not available' / 'no disponible', as the sanitizer's default
\* text does.
C20_MapOptional ==
    C20_PlantFound =>
        LET plantInfo == sanitizePlantInfo(fx.call.reply.parsed.value)
            unknown == \/ plantInfo.distribucionGeografica = ""
                       \/ IncludesNotAvailable(plantInfo.distribucionGeografica)
        IN  /\ fx.result.kind = "return"
            /\ fx.result.value.plantInfo = plantInfo
            /\ unknown => /\ C20_MapRequests = {}
                          /\ fx.result.value.mapaDistribucionSrc = Null
            /\ ~unknown => Cardinality(C20_MapRequests) = 1
            /\ fx.call.mapReply.kind # "image" => fx.result.value.mapaDistribucionSrc = Null
            /\ Field(fx.call.reply.parsed.value, "distribucionGeografica") = JUndef
                   => unknown

\* The map request of a text search failed and the plant was returned
\* without a map
C20_MapFailed ==
    /\ C20_PlantFound
    /\ fx.call.fn = "identifyPlantFromText"
    /\ fx.call.mapReply.kind = "throw"
    /\ C20_MapRequests # {}
    /\ fx.result.kind = "return"
    /\ fx.result.value.mapaDistribucionSrc = Null

----------------------------------------------------------------------------
\* A text search has ended with its result stored
C21_TextSearchDone == last.op = "handleTextSearch" /\ last.outcome = "done"

\* C21: when a text search succeeds, its entry is the current result and is
\* in the history; if the image request failed or answered no image the
\* entry shows the placeholder and is flagged imageGenerationFailed, and if
\* an image was answered the entry is not flagged.
C21_FailedImageFlagged ==
    C21_TextSearchDone =>
        /\ app.currentResult # Null
        /\ \E i \in 1..Len(app.history) : app.history[i] = app.currentResult
        /\ app.currentResult.imageSrc = Src("placeholder")
               <=> Get(app.currentResult, "imageGenerationFailed") # Undefined

\* A text search has succeeded although its image request failed: the
\* stored entry shows the placeholder
C21_PlaceholderStored ==
    /\ C21_TextSearchDone
    /\ app.currentResult # Null
    /\ app.currentResult.imageSrc = Src("placeholder")
    /\ \E i \in 1..Len(app.history) : app.history[i] = app.currentResult

----------------------------------------------------------------------------
\* identifyPlantFromText was called
C22_TextCall == fx.check = "service" /\ fx.called /\ fx.call.fn = "identifyPlantFromText"

\* What the requests of the call ask for, in the order they were sent
C22_Order == [i \in 1..Len(fx.sent) |-> fx.sent[i].prompt.template]

\* C22: identifyPlantFromText sends the plant-information request first,
\* then the distribution-map request if there is one, then the plant-image
\* request; when the plant-information request fails or its response is
\* rejected, no map request and no image request is sent.
C22_RequestsInOrder ==
    C22_TextCall =>
        /\ C22_Order \in {<<>>, <<"generateJsonPrompt">>,
                          <<"generateJsonPrompt", "photograph">>,
                          <<"generateJsonPrompt", "distributionMap", "photograph">>}
        /\ fx.result.kind = "throw" => Len(fx.sent) <= 1
        /\ fx.result.kind = "return" =>
               /\ Len(fx.sent) >= 2
               /\ fx.sent[1].model = "gemini-2.5-flash"
               /\ \A i \in 2..Len(fx.sent) : fx.sent[i].model = "gemini-2.5-flash-image"
               /\ Len(fx.sent) = 3 <=>
                      ~(\/ fx.result.value.plantInfo.distribucionGeografica = ""
                        \/ IncludesNotAvailable(
                               fx.result.value.plantInfo.distribucionGeografica))
        /\ fx.call.apiKey # "" => Len(fx.sent) >= 1

\* A text search sent its three requests
C22_ThreeRequests ==
    /\ C22_TextCall
    /\ C22_Order = <<"generateJsonPrompt", "distributionMap", "photograph">>
    /\ fx.result.kind = "return"

----------------------------------------------------------------------------
\* The requests of the main view that are in flight
C23_MainRequests ==
    {i \in 1..Len(inflight) :
        inflight[i].op \in {"processImage", "handleTextSearch", "handleRemedySearch"}}

\* C23: at most one identification, diagnosis or remedy search is in flight:
\* while one is pending no second one is started.
C23_OneMainRequest == Cardinality(C23_MainRequests) <= 1

\* A text search is in flight and the main view shows the loader
C23_LoaderShown ==
    /\ Cardinality(C23_MainRequests) = 1
    /\ app.isLoading
    /\ Screen(app) = "loader"
    /\ ~ModalOpen(app)

====
